---- MODULE Spec2Model ----
(***************************************************************************)
(* Vriddhi portfolio construction engine                                   *)
(* (src/app/services/investment_engine.py, src/app/test_main.py).          *)
(*                                                                         *)
(* Specifications over one set of variables:                               *)
(*   SpecSelect     advanced_stock_selector over a universe snapshot       *)
(*   SpecRanked     the same over a universe with overall_rank set         *)
(*   SpecAlloc      optimize_portfolio, then                               *)
(*                  calculate_whole_share_allocation                       *)
(*   SpecProj       the SIP projectors                                     *)
(*   SpecRun        run_complete_analysis step by step, and the            *)
(*                  stock-selection request                                *)
(*   SpecObjective  the objective functions handed to the solver           *)
(*   SpecHorizon    the resolution of a horizon to a forecast column       *)
(*   SpecConcurrent plan requests in flight together                       *)
(*   SpecEndpoints  the investment endpoints and their error statuses      *)
(*                                                                         *)
(* Python floats are modelled by exact rationals, Optional values by       *)
(* sequences of length at most one.                                        *)
(***************************************************************************)
EXTENDS Integers, Sequences, FiniteSets, TLC

VARIABLES
    universe,            \* active stocks, each joined with its latest forecast row
    sel_pc,              \* "start" | "returned" | "raised"
    sel_args,            \* arguments of the advanced_stock_selector call
    sel_result,          \* what advanced_stock_selector returned
    opt_stocks,          \* selected_stocks handed to optimize_portfolio
    opt_amount,          \* monthly_investment handed to optimize_portfolio
    alloc_pc,            \* "start" | "optimized" | "reconciled" | "raised"
    solver,              \* outcome of scipy.optimize.minimize
    portfolio_allocations,
    whole_share_allocations,
    proj_args,           \* monthly_investment, horizon_months, achieved_cagr
    proj_pc,             \* "start" | "engine" | "summary" | "standalone" | "raised"
    projection,          \* what the projector returned
    run_pc,              \* position of run_complete_analysis or of the selection request
    run_args,            \* arguments of run_complete_analysis
    results,             \* the bundle returned by run_complete_analysis
    objective_eval,      \* one evaluation of an objective function by the solver
    horizon_request,     \* a requested horizon and the forecast column it resolves to
    tasks,               \* the plan requests in flight, each with its own locals
    http                 \* a request to an investment endpoint and its response

vars == <<universe, sel_pc, sel_args, sel_result, opt_stocks, opt_amount,
          alloc_pc, solver, portfolio_allocations, whole_share_allocations,
          proj_args, proj_pc, projection,
          run_pc, run_args, results, objective_eval, horizon_request, tasks,
          http>>

selVars == <<universe, sel_pc, sel_args, sel_result>>
allocVars == <<opt_stocks, opt_amount, alloc_pc, solver,
               portfolio_allocations, whole_share_allocations>>
projVars == <<proj_args, proj_pc, projection>>
runVars == <<run_pc, run_args, results>>
evalVars == <<objective_eval, horizon_request, tasks, http>>

-----------------------------------------------------------------------------
(* Optional values and exact rationals *)

None == <<>>
Some(v) == <<v>>

\* Python truthiness of an Optional[float]: None and 0 are falsy.
Truthy(x) == x # None /\ x[1] # 0

RECURSIVE GCD(_, _)
GCD(a, b) == IF b = 0 THEN a ELSE GCD(b, a % b)

Abs(x) == IF x < 0 THEN -x ELSE x

\* The rational n/d in lowest terms with d > 0.
Rat(n, d) ==
    LET g == GCD(Abs(n), Abs(d))
        s == IF d < 0 THEN -1 ELSE 1
    IN  [n |-> s * (n \div g), d |-> s * (d \div g)]

RInt(k) == [n |-> k, d |-> 1]
RAdd(a, b) == Rat(a.n * b.d + b.n * a.d, a.d * b.d)
RSub(a, b) == Rat(a.n * b.d - b.n * a.d, a.d * b.d)
RMul(a, b) == Rat(a.n * b.n, a.d * b.d)
RDiv(a, b) == Rat(a.n * b.d, a.d * b.n)
RLess(a, b) == a.n * b.d < b.n * a.d
RLeq(a, b) == a.n * b.d <= b.n * a.d

RECURSIVE RSum(_)
RSum(s) == IF s = <<>> THEN RInt(0) ELSE RAdd(Head(s), RSum(Tail(s)))

\* Python round() on a float: nearest integer, halves to the even neighbour.
PyRound(a) ==
    LET q == a.n \div a.d
        r == a.n % a.d
    IN  IF 2 * r < a.d THEN q
        ELSE IF 2 * r > a.d THEN q + 1
        ELSE IF q % 2 = 0 THEN q ELSE q + 1

Max(a, b) == IF a >= b THEN a ELSE b
Min(a, b) == IF a <= b THEN a ELSE b

-----------------------------------------------------------------------------
(* Selector: VriddhiInvestmentEngine.advanced_stock_selector *)

MaxUniverse == 4
MaxStocksLimit == 3

Sectors == {"A", "B"}
Buckets == {6, 12, 18, 24, 36, 48, 60}

\* self.forecast_map.get(horizon_months, 'forecast_24m')
get_forecast_column(horizon_months) ==
    IF horizon_months \in Buckets THEN horizon_months ELSE 24

\* A forecast row whose seven forecast columns all hold v.
Row(v) == Some([b \in Buckets |-> v])

\* (pe_ratio, avg_historical_cagr) of the usable instruments: PEG 1/2 and 2.
UsableRatios == {<<1, 2>>, <<2, 1>>}

UsableStocks ==
    {[sector |-> s, pe_ratio |-> Some(r[1]), avg_historical_cagr |-> Some(r[2]),
      forecast |-> Row(Some(10)), overall_rank |-> None]
         : s \in Sectors, r \in UsableRatios}

\* One unusable field each: pe_ratio, avg_historical_cagr, forecast.
Blemishes ==
    {<<None, Some(2), Row(Some(10))>>,
     <<Some(0), Some(2), Row(Some(10))>>,
     <<Some(-1), Some(2), Row(Some(10))>>,
     <<Some(1), None, Row(Some(10))>>,
     <<Some(1), Some(0), Row(Some(10))>>,
     <<Some(1), Some(-2), Row(Some(10))>>,
     <<Some(1), Some(2), None>>,
     <<Some(1), Some(2), Row(None)>>,
     <<Some(1), Some(2), Row(Some(0))>>}

\* The unusable instruments sit in one sector, so that a sector can have
\* unusable instruments only.
BlemishedStocks(u) ==
    {[sector |-> "B", pe_ratio |-> u[1], avg_historical_cagr |-> u[2],
      forecast |-> u[3], overall_rank |-> None]}

\* One threshold that a PEG of 2 equals, one above every PEG.
PegThresholds == {RInt(2), RInt(3)}
Horizons == {24}

\* The comparison "> 0" of lines 103 and 125.
Positive_Nonzero(x) == x # 0

Positive(x) == x > 0

\* Lines 101-103: the row joins stock_data only with a forecast row, truthy
\* pe_ratio, avg_historical_cagr and forecast value, and positive ratios.
PassesGate(stock, forecast_col) ==
    /\ stock.forecast # None
    /\ Truthy(stock.pe_ratio)
    /\ Truthy(stock.avg_historical_cagr)
    /\ Truthy(stock.forecast[1][forecast_col])
    /\ Positive(stock.pe_ratio[1])
    /\ Positive(stock.avg_historical_cagr[1])

\* Lines 104-117: the stock_data row of the stock at position i (its ticker).
StockData(stocks, i, forecast_col) ==
    [ticker |-> i,
     sector |-> stocks[i].sector,
     pe_ratio |-> stocks[i].pe_ratio[1],
     avg_historical_cagr |-> stocks[i].avg_historical_cagr[1],
     forecast_cagr |-> stocks[i].forecast[1][forecast_col][1],
     peg_ratio |-> Rat(stocks[i].pe_ratio[1], stocks[i].avg_historical_cagr[1]),
     overall_rank |-> IF Truthy(stocks[i].overall_rank)
                      THEN stocks[i].overall_rank[1] ELSE 999]

RECURSIVE BuildStockData(_, _, _)
BuildStockData(stocks, i, forecast_col) ==
    IF i > Len(stocks) THEN <<>>
    ELSE IF PassesGate(stocks[i], forecast_col)
         THEN <<StockData(stocks, i, forecast_col)>>
                  \o BuildStockData(stocks, i + 1, forecast_col)
         ELSE BuildStockData(stocks, i + 1, forecast_col)

\* Line 125: df[(df['pe_ratio'] > 0) & (df['avg_historical_cagr'] > 0)]
QualityFilter(rows) ==
    SelectSeq(rows, LAMBDA r : Positive(r.pe_ratio) /\ Positive(r.avg_historical_cagr))

\* df['sector'].unique(): the sectors in order of first appearance.
RECURSIVE Unique(_, _)
Unique(rows, seen) ==
    IF rows = <<>> THEN <<>>
    ELSE IF Head(rows).sector \in seen THEN Unique(Tail(rows), seen)
    ELSE <<Head(rows).sector>> \o Unique(Tail(rows), seen \cup {Head(rows).sector})

\* sort_values('peg_ratio', ascending=True): rows of equal PEG keep their
\* order (numpy sorts arrays of this size by insertion).
RECURSIVE InsertByPeg(_, _)
InsertByPeg(row, sorted) ==
    IF sorted = <<>> THEN <<row>>
    ELSE IF RLess(row.peg_ratio, Head(sorted).peg_ratio) THEN <<row>> \o sorted
    ELSE <<Head(sorted)>> \o InsertByPeg(row, Tail(sorted))

RECURSIVE SortByPeg(_)
SortByPeg(rows) ==
    IF rows = <<>> THEN <<>>
    ELSE InsertByPeg(rows[Len(rows)], SortByPeg(SubSeq(rows, 1, Len(rows) - 1)))

\* DataFrame.head(n): the first n rows; for negative n all rows but the last -n.
PandasHead(rows, n) ==
    IF n >= 0 THEN SubSeq(rows, 1, Min(n, Len(rows)))
    ELSE SubSeq(rows, 1, Len(rows) + n)

Round1_FirstListed(df, sectors) ==
    [k \in 1..Len(sectors) |-> SelectSeq(df, LAMBDA r : r.sector = sectors[k])[1]]

\* Lines 136-145: per sector, the first row of the sector sorted by PEG.
Round1(df, sectors) ==
    [k \in 1..Len(sectors) |->
        SortByPeg(SelectSeq(df, LAMBDA r : r.sector = sectors[k]))[1]]

TickersOf_Forgotten(rows) == {}

\* Line 143: used_tickers, the tickers of the Round-1 picks.
TickersOf(rows) == {rows[k].ticker : k \in 1..Len(rows)}

BelowThreshold_Inclusive(row, peg_threshold) == RLeq(row.peg_ratio, peg_threshold)

\* Line 160: remaining_stocks[remaining_stocks['peg_ratio'] < peg_threshold]
BelowThreshold(row, peg_threshold) == RLess(row.peg_ratio, peg_threshold)

Round2_CapNotReduced(df, round1, max_stocks, peg_threshold) ==
    LET used_tickers == TickersOf(round1)
        remaining_stocks == SelectSeq(df, LAMBDA r : r.ticker \notin used_tickers)
        quality_stocks ==
            SelectSeq(remaining_stocks, LAMBDA r : BelowThreshold(r, peg_threshold))
    IN  IF Len(quality_stocks) > 0
        THEN PandasHead(SortByPeg(quality_stocks), max_stocks)
        ELSE <<>>

\* Lines 157-169: the Round-2 additions.
Round2(df, round1, max_stocks, peg_threshold) ==
    LET used_tickers == TickersOf(round1)
        remaining_stocks == SelectSeq(df, LAMBDA r : r.ticker \notin used_tickers)
        quality_stocks ==
            SelectSeq(remaining_stocks, LAMBDA r : BelowThreshold(r, peg_threshold))
        remaining_slots == max_stocks - Len(round1)
    IN  IF Len(quality_stocks) > 0
        THEN PandasHead(SortByPeg(quality_stocks), remaining_slots)
        ELSE <<>>

PortfolioCagr_NotPerHundred(selected) ==
    IF Len(selected) > 0
    THEN RDiv(RSum([k \in 1..Len(selected) |-> RInt(selected[k].forecast_cagr)]),
              RInt(Len(selected)))
    ELSE RInt(0)

\* Lines 185-188: np.mean of the forecast values, divided by 100.
PortfolioCagr(selected) ==
    IF Len(selected) > 0
    THEN RDiv(RDiv(RSum([k \in 1..Len(selected) |-> RInt(selected[k].forecast_cagr)]),
                   RInt(Len(selected))),
              RInt(100))
    ELSE RInt(0)

NoResult == [round1 |-> <<>>, round2 |-> <<>>, selected |-> <<>>, error |-> "none"]

SelectInit ==
    /\ \E u \in Blemishes :
         universe \in UNION {[1..n -> UsableStocks \cup BlemishedStocks(u)]
                                 : n \in 0..MaxUniverse}
    /\ sel_pc = "start"
    /\ sel_args = [max_stocks |-> 0, peg_threshold |-> RInt(0), horizon_months |-> 0]
    /\ sel_result = NoResult

\* Lines 83-86: no active stocks.
SelectorNoStocks ==
    /\ sel_pc = "start"
    /\ universe = <<>>
    /\ \E max_stocks \in 1..MaxStocksLimit, peg_threshold \in PegThresholds,
          horizon_months \in Horizons :
         sel_args' = [max_stocks |-> max_stocks, peg_threshold |-> peg_threshold,
                      horizon_months |-> horizon_months]
    /\ sel_pc' = "raised"
    /\ sel_result' = [NoResult EXCEPT !.error = "No active stocks found in database"]
    /\ UNCHANGED <<universe, allocVars, projVars, runVars, evalVars>>

\* Lines 119-120: no stock passed the gate.
SelectorNoValidData ==
    /\ sel_pc = "start"
    /\ universe # <<>>
    /\ \E horizon_months \in Horizons :
         /\ BuildStockData(universe, 1, get_forecast_column(horizon_months)) = <<>>
         /\ \E max_stocks \in 1..MaxStocksLimit, peg_threshold \in PegThresholds :
              sel_args' = [max_stocks |-> max_stocks, peg_threshold |-> peg_threshold,
                           horizon_months |-> horizon_months]
    /\ sel_pc' = "raised"
    /\ sel_result' = [NoResult EXCEPT !.error = "No stocks with valid data found"]
    /\ UNCHANGED <<universe, allocVars, projVars, runVars, evalVars>>

\* Lines 122-224: both rounds, and the returned selection.
SelectorReturns ==
    /\ sel_pc = "start"
    /\ universe # <<>>
    /\ \E horizon_months \in Horizons :
         LET stock_data == BuildStockData(universe, 1, get_forecast_column(horizon_months))
             df == QualityFilter(stock_data)
             sectors == Unique(df, {})
             round1 == Round1(df, sectors)
         IN  /\ stock_data # <<>>
             /\ \E max_stocks \in 1..MaxStocksLimit, peg_threshold \in PegThresholds :
                  LET round2 == Round2(df, round1, max_stocks, peg_threshold)
                  IN  /\ sel_args' = [max_stocks |-> max_stocks,
                                      peg_threshold |-> peg_threshold,
                                      horizon_months |-> horizon_months]
                      /\ sel_result' = [round1 |-> round1, round2 |-> round2,
                                        selected |-> round1 \o round2,
                                        error |-> "none"]
    /\ sel_pc' = "returned"
    /\ UNCHANGED <<universe, allocVars, projVars, runVars, evalVars>>

advanced_stock_selector ==
    \/ SelectorNoStocks
    \/ SelectorNoValidData
    \/ SelectorReturns

SelectIdle ==
    /\ universe = <<>>
    /\ sel_pc = "idle"
    /\ sel_args = [max_stocks |-> 0, peg_threshold |-> RInt(0), horizon_months |-> 0]
    /\ sel_result = NoResult

-----------------------------------------------------------------------------
(* Weight optimizer and share reconciler:                                  *)
(* optimize_portfolio, calculate_whole_share_allocation                    *)

MaxSelected == 3
GridSteps == 2

Prices == {1, 2, 3}
MonthlyInvestments == {RInt(0), RInt(1), RInt(5), RInt(10)}

\* (pe_ratio, avg_historical_cagr) of a selected stock: both set, or both NULL.
Profiles == {<<Some(2), Some(1)>>, <<None, None>>}

SelectedStocks ==
    {[current_price |-> p, pe_ratio |-> f[1], avg_historical_cagr |-> f[2]]
         : p \in Prices, f \in Profiles}

\* Line 255: stock.avg_historical_cagr or 20.0
ExpectedReturn(stock) ==
    IF Truthy(stock.avg_historical_cagr) THEN RInt(stock.avg_historical_cagr[1])
    ELSE RInt(20)

\* Line 256: stock.pe_ratio / 100 if stock.pe_ratio else 0.25
Risk(stock) ==
    IF Truthy(stock.pe_ratio) THEN Rat(stock.pe_ratio[1], 100) ELSE Rat(25, 100)

RECURSIVE IntSum(_)
IntSum(s) == IF s = <<>> THEN 0 ELSE Head(s) + IntSum(Tail(s))

\* Lines 279-288: what a successful SLSQP run may return for n stocks under
\* bounds (0, 1) and the constraint sum(x) = 1, on a grid of GridSteps steps.
FeasibleWeights(n) ==
    {[i \in 1..n |-> Rat(g[i], GridSteps)] :
        g \in {h \in [1..n -> 0..GridSteps] : IntSum(h) = GridSteps}}

EqualWeights_NotDivided(n) == [i \in 1..n |-> RInt(1)]

\* Lines 291, 294: np.ones(n) / n
EqualWeights(n) == [i \in 1..n |-> Rat(1, n)]

\* Lines 285-294, test_main.py lines 280-288: the weights after the solver
\* call, x of a successful run or the equal weights of either fallback.
SolverWeights(n) == FeasibleWeights(n) \cup {EqualWeights(n)}

\* Lines 258-266, 296-304: one allocation per stock, in the order received.
Allocations(stocks, weights, monthly_investment) ==
    [i \in 1..Len(stocks) |->
        [ticker |-> i,
         current_price |-> stocks[i].current_price,
         pe_ratio |-> stocks[i].pe_ratio,
         expected_return |-> ExpectedReturn(stocks[i]),
         weight |-> weights[i],
         monthly_allocation |-> RMul(weights[i], monthly_investment)]]

WholeShares_RoundedDown(ideal_shares) == Max(1, ideal_shares.n \div ideal_shares.d)

WholeShares_NoMinimum(ideal_shares) == PyRound(ideal_shares)

\* Line 412: max(1, round(ideal_shares))
WholeShares(ideal_shares) == Max(1, PyRound(ideal_shares))

\* Lines 404-424: the per-allocation pass.
ShareRow(allocation) ==
    LET ideal_shares == RDiv(allocation.monthly_allocation, RInt(allocation.current_price))
        whole_shares == WholeShares(ideal_shares)
    IN  [ticker |-> allocation.ticker,
         current_price |-> allocation.current_price,
         weight |-> allocation.weight,
         target_shares |-> ideal_shares,
         whole_shares |-> whole_shares,
         share_cost |-> whole_shares * allocation.current_price]

\* Lines 404-424: the rows, in the order of the allocations.
ShareRows(allocations) == [i \in 1..Len(allocations) |-> ShareRow(allocations[i])]

\* Line 415: total_share_cost accumulated over the rows.
TotalShareCost(rows) == IntSum([i \in 1..Len(rows) |-> rows[i].share_cost])

WithActualWeights_TargetWeights(rows, total_share_cost) ==
    [i \in 1..Len(rows) |->
        [ticker |-> rows[i].ticker,
         current_price |-> rows[i].current_price,
         weight |-> rows[i].weight,
         target_shares |-> rows[i].target_shares,
         whole_shares |-> rows[i].whole_shares,
         share_cost |-> rows[i].share_cost,
         actual_weight |-> rows[i].weight,
         total_monthly_investment |-> total_share_cost]]

\* Lines 427-429: actual_weight and total_monthly_investment on every row.
WithActualWeights(rows, total_share_cost) ==
    [i \in 1..Len(rows) |->
        [ticker |-> rows[i].ticker,
         current_price |-> rows[i].current_price,
         weight |-> rows[i].weight,
         target_shares |-> rows[i].target_shares,
         whole_shares |-> rows[i].whole_shares,
         share_cost |-> rows[i].share_cost,
         actual_weight |-> Rat(rows[i].share_cost, total_share_cost),
         total_monthly_investment |-> total_share_cost]]

AllocIdle ==
    /\ opt_stocks = <<>>
    /\ opt_amount = RInt(0)
    /\ alloc_pc = "idle"
    /\ solver = "none"
    /\ portfolio_allocations = <<>>
    /\ whole_share_allocations = <<>>

AllocInit ==
    /\ opt_stocks \in UNION {[1..n -> SelectedStocks] : n \in 1..MaxSelected}
    /\ opt_amount \in MonthlyInvestments
    /\ alloc_pc = "start"
    /\ solver = "none"
    /\ portfolio_allocations = <<>>
    /\ whole_share_allocations = <<>>

\* Lines 285-288: minimize returns with result.success, weights = result.x.
OptimizeSolverSucceeds ==
    /\ alloc_pc = "start"
    /\ \E x \in FeasibleWeights(Len(opt_stocks)) :
         portfolio_allocations' = Allocations(opt_stocks, x, opt_amount)
    /\ solver' = "success"
    /\ alloc_pc' = "optimized"
    /\ UNCHANGED <<opt_stocks, opt_amount, whole_share_allocations, selVars, projVars,
                   runVars, evalVars>>

\* Lines 289-291: minimize returns without success.
OptimizeSolverFails ==
    /\ alloc_pc = "start"
    /\ portfolio_allocations' =
           Allocations(opt_stocks, EqualWeights(Len(opt_stocks)), opt_amount)
    /\ solver' = "failure"
    /\ alloc_pc' = "optimized"
    /\ UNCHANGED <<opt_stocks, opt_amount, whole_share_allocations, selVars, projVars,
                   runVars, evalVars>>

\* Lines 292-294: minimize raises.
OptimizeSolverRaises ==
    /\ alloc_pc = "start"
    /\ portfolio_allocations' =
           Allocations(opt_stocks, EqualWeights(Len(opt_stocks)), opt_amount)
    /\ solver' = "raised"
    /\ alloc_pc' = "optimized"
    /\ UNCHANGED <<opt_stocks, opt_amount, whole_share_allocations, selVars, projVars,
                   runVars, evalVars>>

optimize_portfolio ==
    \/ OptimizeSolverSucceeds
    \/ OptimizeSolverFails
    \/ OptimizeSolverRaises

\* Lines 401-431; the division of line 428 raises ZeroDivisionError when the
\* total share cost is zero.
calculate_whole_share_allocation ==
    /\ alloc_pc = "optimized"
    /\ LET rows == ShareRows(portfolio_allocations)
           total_share_cost == TotalShareCost(rows)
       IN  IF total_share_cost = 0
           THEN /\ whole_share_allocations' = <<>>
                /\ alloc_pc' = "raised"
           ELSE /\ whole_share_allocations' = WithActualWeights(rows, total_share_cost)
                /\ alloc_pc' = "reconciled"
    /\ UNCHANGED <<opt_stocks, opt_amount, solver, portfolio_allocations,
                   selVars, projVars, runVars, evalVars>>

\* test_main.py lines 259-290: the standalone optimizer writes the weights
\* into the frame it was given (selected_df['Weight'] = ...) and returns that
\* frame. Its rows come from the standalone selector, so PE_Ratio is set.
standalone_optimize_portfolio ==
    /\ alloc_pc = "start"
    /\ \A i \in 1..Len(opt_stocks) : opt_stocks[i].pe_ratio # None
    /\ \E weights \in SolverWeights(Len(opt_stocks)) :
         opt_stocks' =
             [i \in 1..Len(opt_stocks) |->
                 [current_price |-> opt_stocks[i].current_price,
                  pe_ratio |-> opt_stocks[i].pe_ratio,
                  avg_historical_cagr |-> opt_stocks[i].avg_historical_cagr,
                  Weight |-> weights[i]]]
    /\ alloc_pc' = "standalone"
    /\ UNCHANGED <<opt_amount, solver, portfolio_allocations, whole_share_allocations,
                   selVars, projVars, runVars, evalVars>>

-----------------------------------------------------------------------------
(* Projector: compute_projection, calculate_financial_projections, and the  *)
(* standalone compute_projections of test_main.py.                          *)
(*                                                                          *)
(* achieved_cagr is given in hundredths (12 stands for 0.12), so that the   *)
(* monthly rate achieved_cagr / 12 is p / Base with p the number of         *)
(* hundredths. Powers of 1 + p / Base are exact naturals in base Base:      *)
(* sequences of limbs, least significant first, without leading zero limbs. *)

MaxHorizon == 12
MonthsPerYear == 12
Base == MonthsPerYear * 100

ProjAmounts == {RInt(0), RInt(1), Rat(3, 2), RInt(50000), Rat(100001, 2)}
ProjRates == {-12, 0, 12, 24}

RECURSIVE BigNorm(_)
BigNorm(a) ==
    IF a = <<>> THEN <<>>
    ELSE IF a[Len(a)] = 0 THEN BigNorm(SubSeq(a, 1, Len(a) - 1))
    ELSE a

RECURSIVE BigFromInt(_)
BigFromInt(x) == IF x = 0 THEN <<>> ELSE <<x % Base>> \o BigFromInt(x \div Base)

RECURSIVE BigToInt(_)
BigToInt(a) == IF a = <<>> THEN 0 ELSE Head(a) + Base * BigToInt(Tail(a))

RECURSIVE BigMulCarry(_, _, _)
BigMulCarry(a, k, carry) ==
    IF a = <<>> THEN BigFromInt(carry)
    ELSE LET t == Head(a) * k + carry
         IN  <<t % Base>> \o BigMulCarry(Tail(a), k, t \div Base)

\* a * k for a natural k
BigMulSmall(a, k) == BigNorm(BigMulCarry(a, k, 0))

RECURSIVE BigAddCarry(_, _, _)
BigAddCarry(a, b, carry) ==
    IF a = <<>> /\ b = <<>> THEN BigFromInt(carry)
    ELSE LET x == IF a = <<>> THEN 0 ELSE Head(a)
             y == IF b = <<>> THEN 0 ELSE Head(b)
             t == x + y + carry
         IN  <<t % Base>> \o BigAddCarry(IF a = <<>> THEN <<>> ELSE Tail(a),
                                         IF b = <<>> THEN <<>> ELSE Tail(b),
                                         t \div Base)

BigAdd(a, b) == BigNorm(BigAddCarry(a, b, 0))

RECURSIVE BigSubBorrow(_, _, _)
BigSubBorrow(a, b, borrow) ==
    IF a = <<>> THEN <<>>
    ELSE LET y == (IF b = <<>> THEN 0 ELSE Head(b)) + borrow
             rest == IF b = <<>> THEN <<>> ELSE Tail(b)
         IN  IF Head(a) >= y
             THEN <<Head(a) - y>> \o BigSubBorrow(Tail(a), rest, 0)
             ELSE <<Head(a) + Base - y>> \o BigSubBorrow(Tail(a), rest, 1)

\* a - b for a >= b
BigSub(a, b) == BigNorm(BigSubBorrow(a, b, 0))

RECURSIVE BigCmpFrom(_, _, _)
BigCmpFrom(a, b, i) ==
    IF i = 0 THEN 0
    ELSE IF a[i] < b[i] THEN -1
    ELSE IF a[i] > b[i] THEN 1
    ELSE BigCmpFrom(a, b, i - 1)

\* -1, 0 or 1 as a < b, a = b or a > b
BigCmp(a, b) ==
    IF Len(a) < Len(b) THEN -1
    ELSE IF Len(a) > Len(b) THEN 1
    ELSE BigCmpFrom(a, b, Len(a))

\* a * Base^s
BigShift(a, s) == IF a = <<>> THEN <<>> ELSE [i \in 1..s |-> 0] \o a

RECURSIVE BigDivStep(_, _)
BigDivStep(a, k) ==
    IF a = <<>> THEN [q |-> <<>>, r |-> 0]
    ELSE LET hi == BigDivStep(Tail(a), k)
             cur == hi.r * Base + Head(a)
         IN  [q |-> <<cur \div k>> \o hi.q, r |-> cur % k]

\* quotient and remainder of a by a positive k
BigDivSmall(a, k) ==
    LET d == BigDivStep(a, k) IN [q |-> BigNorm(d.q), r |-> d.r]

RECURSIVE BigPow(_, _)
BigPow(x, m) == IF m = 0 THEN <<1>> ELSE BigMulSmall(BigPow(x, m - 1), x)

\* A value [n, c, s] stands for n / (c * Base^s), with c > 0.
VEq(v, w) ==
    BigCmp(BigMulSmall(BigShift(v.n, w.s), w.c), BigMulSmall(BigShift(w.n, v.s), v.c)) = 0

VLeq(v, w) ==
    BigCmp(BigMulSmall(BigShift(v.n, w.s), w.c), BigMulSmall(BigShift(w.n, v.s), v.c)) <= 0

VOfRat(a) == [n |-> BigFromInt(a.n), c |-> a.d, s |-> 0]

\* Python round() of a value: nearest integer, halves to the even neighbour.
VRound(v) ==
    LET hi == IF Len(v.n) > v.s THEN SubSeq(v.n, v.s + 1, Len(v.n)) ELSE <<>>
        lo == BigNorm(SubSeq(v.n, 1, Min(v.s, Len(v.n))))
        d == BigDivSmall(hi, v.c)
        q == BigToInt(d.q)
        twice == BigMulSmall(BigAdd(BigShift(BigFromInt(d.r), v.s), lo), 2)
        cmp == BigCmp(twice, BigShift(BigFromInt(v.c), v.s))
    IN  IF cmp < 0 THEN q
        ELSE IF cmp > 0 THEN q + 1
        ELSE IF q % 2 = 0 THEN q ELSE q + 1

MonthlyCagr_NotDivided(achieved_cagr) == achieved_cagr * MonthsPerYear

\* Lines 326, 356: achieved_cagr / 12, as the numerator p of p / Base.
MonthlyCagr(achieved_cagr) == achieved_cagr

EngineFutureValue_MinusOneDropped(monthly_investment, month, p) ==
    IF p > 0
    THEN [n |-> BigMulSmall(BigPow(Base + p, month), monthly_investment.n),
          c |-> monthly_investment.d * p,
          s |-> month - 1]
    ELSE [n |-> BigFromInt(monthly_investment.n * month),
          c |-> monthly_investment.d,
          s |-> 0]

\* Lines 329-332, 363-366: monthly_investment * (((1 + r) ** month - 1) / r) for
\* a monthly rate r = p / Base > 0, monthly_investment * month otherwise.
EngineFutureValue(monthly_investment, month, p) ==
    IF p > 0
    THEN [n |-> BigMulSmall(BigSub(BigPow(Base + p, month), BigShift(<<1>>, month)),
                            monthly_investment.n),
          c |-> monthly_investment.d * p,
          s |-> month - 1]
    ELSE [n |-> BigFromInt(monthly_investment.n * month),
          c |-> monthly_investment.d,
          s |-> 0]

\* Line 334: future_value - total_investment.
EngineGain(monthly_investment, month, p) ==
    IF p > 0
    THEN [n |-> BigMulSmall(BigSub(BigSub(BigPow(Base + p, month), BigShift(<<1>>, month)),
                                   BigMulSmall(BigShift(<<1>>, month - 1), month * p)),
                            monthly_investment.n),
          c |-> monthly_investment.d * p,
          s |-> month - 1]
    ELSE VOfRat(RInt(0))

\* test_main.py lines 303-307: the sum over inv_month = from..month of
\* (1 + r) ** (month - inv_month + 1), as a numerator over Base^month.
RECURSIVE StandaloneSum(_, _, _)
StandaloneSum(month, from, p) ==
    IF from > month THEN <<>>
    ELSE LET months_invested == month - from + 1
         IN  BigAdd(BigShift(BigPow(Base + p, months_invested), month - months_invested),
                    StandaloneSum(month, from + 1, p))

\* test_main.py lines 302-308: total_value of one month.
StandaloneValue(monthly_investment, month, p) ==
    [n |-> BigMulSmall(StandaloneSum(month, 1, p), monthly_investment.n),
     c |-> monthly_investment.d,
     s |-> month]

\* test_main.py line 312: final_value - total_invested, with its sign.
StandaloneGains(monthly_investment, horizon_months, p) ==
    LET sum == StandaloneSum(horizon_months, 1, p)
        invested == BigShift(BigFromInt(horizon_months), horizon_months)
        loss == BigCmp(sum, invested) < 0
    IN  [negative |-> loss,
         magnitude |->
             [n |-> BigMulSmall(IF loss THEN BigSub(invested, sum) ELSE BigSub(sum, invested),
                                monthly_investment.n),
              c |-> monthly_investment.d,
              s |-> horizon_months]]

\* Lines 355-369.
ProjectedValues(monthly_investment, horizon_months, achieved_cagr) ==
    [month \in 1..horizon_months |->
        VRound(EngineFutureValue(monthly_investment, month, MonthlyCagr(achieved_cagr)))]

CumulativeInvested_Flat(monthly_investment, horizon_months) ==
    [month \in 1..horizon_months |-> monthly_investment]

CumulativeInvested(monthly_investment, horizon_months) ==
    [month \in 1..horizon_months |-> RMul(monthly_investment, RInt(month))]

ProjIdle ==
    /\ proj_args = [monthly_investment |-> RInt(0), horizon_months |-> 0, achieved_cagr |-> 0]
    /\ proj_pc = "idle"
    /\ projection = <<>>

ProjInit ==
    /\ proj_args \in [monthly_investment : ProjAmounts,
                      horizon_months : 1..MaxHorizon,
                      achieved_cagr : ProjRates]
    /\ proj_pc = "start"
    /\ projection = <<>>

\* Lines 309-336.
compute_projection ==
    /\ proj_pc = "start"
    /\ LET monthly_cagr == MonthlyCagr(proj_args.achieved_cagr)
           total_investment == RMul(proj_args.monthly_investment,
                                    RInt(proj_args.horizon_months))
       IN  projection' =
               [total_investment |-> PyRound(total_investment),
                future_value |-> VRound(EngineFutureValue(proj_args.monthly_investment,
                                                           proj_args.horizon_months,
                                                           monthly_cagr)),
                gain |-> VRound(EngineGain(proj_args.monthly_investment,
                                           proj_args.horizon_months, monthly_cagr))]
    /\ proj_pc' = "summary"
    /\ UNCHANGED <<proj_args, selVars, allocVars, runVars, evalVars>>

\* Lines 355-386: the record returned for a total investment other than zero.
FinancialProjections(monthly_investment, horizon, achieved_cagr) ==
    LET cumulative_invested == CumulativeInvested(monthly_investment, horizon)
        projected_values == ProjectedValues(monthly_investment, horizon, achieved_cagr)
        final_value == projected_values[horizon]
        total_investment == cumulative_invested[horizon]
        total_gain == RSub(RInt(final_value), total_investment)
    IN  [projected_values |-> projected_values,
         cumulative_investment |-> cumulative_invested,
         monthly_gains |->
             [i \in 1..horizon |->
                 RSub(RInt(projected_values[i]), cumulative_invested[i])],
         total_investment |-> total_investment,
         final_value |-> final_value,
         total_gain |-> total_gain,
         money_multiplier |-> RDiv(RInt(final_value), total_investment),
         monthly_avg_gain |-> RDiv(total_gain, RInt(horizon)),
         total_return_percentage |->
             RMul(RDiv(total_gain, total_investment), RInt(100))]

\* Lines 338-386; the divisions of lines 383 and 385 raise ZeroDivisionError
\* when the total investment is zero.
calculate_financial_projections ==
    /\ proj_pc = "start"
    /\ IF RMul(proj_args.monthly_investment, RInt(proj_args.horizon_months)) = RInt(0)
       THEN /\ projection' = <<>>
            /\ proj_pc' = "raised"
       ELSE /\ projection' = FinancialProjections(proj_args.monthly_investment,
                                                  proj_args.horizon_months,
                                                  proj_args.achieved_cagr)
            /\ proj_pc' = "engine"
    /\ UNCHANGED <<proj_args, selVars, allocVars, runVars, evalVars>>

\* test_main.py lines 292-321.
compute_projections ==
    /\ proj_pc = "start"
    /\ LET horizon == proj_args.horizon_months
           monthly_cagr == MonthlyCagr(proj_args.achieved_cagr)
           portfolio_values ==
               [month \in 1..horizon |->
                   StandaloneValue(proj_args.monthly_investment, month, monthly_cagr)]
       IN  projection' =
               [timeline |-> [month \in 1..horizon |-> month],
                invested_amounts |->
                    [month \in 1..horizon |-> RMul(proj_args.monthly_investment, RInt(month))],
                portfolio_values |-> portfolio_values,
                total_invested |-> RMul(proj_args.monthly_investment, RInt(horizon)),
                final_value |-> portfolio_values[horizon],
                total_gains |-> StandaloneGains(proj_args.monthly_investment, horizon,
                                                monthly_cagr)]
    /\ proj_pc' = "standalone"
    /\ UNCHANGED <<proj_args, selVars, allocVars, runVars, evalVars>>

-----------------------------------------------------------------------------
(* The complete selector result, and run_complete_analysis.                 *)

MaxRunUniverse == 3

\* Defaults of advanced_stock_selector, which run_complete_analysis relies on.
DefaultMaxStocks == 20
DefaultMinStocks == 8
DefaultPegThreshold == RInt(1)

\* A forecast row holding v12 in forecast_12m and other in every other column.
RowOf(v12, other) == Some([b \in Buckets |-> IF b = 12 THEN Some(v12) ELSE Some(other)])

\* Instruments of the pipeline runs: two of sector A with PEG 1/4 and 2, one of
\* sector B with PEG 1/4, one of sector B priced 0, one failing the gate.
RunStocks ==
    {[sector |-> "A", pe_ratio |-> Some(1), avg_historical_cagr |-> Some(4),
      forecast |-> RowOf(12, 36), current_price |-> 2, overall_rank |-> Some(2),
      investment_style |-> Some("Growth"), risk_level |-> None],
     [sector |-> "A", pe_ratio |-> Some(2), avg_historical_cagr |-> Some(1),
      forecast |-> RowOf(24, 24), current_price |-> 1, overall_rank |-> Some(1),
      investment_style |-> None, risk_level |-> None],
     [sector |-> "B", pe_ratio |-> Some(1), avg_historical_cagr |-> Some(4),
      forecast |-> RowOf(36, 12), current_price |-> 1, overall_rank |-> None,
      investment_style |-> Some("Value"), risk_level |-> Some("Low")],
     [sector |-> "B", pe_ratio |-> Some(2), avg_historical_cagr |-> Some(1),
      forecast |-> RowOf(12, 12), current_price |-> 0, overall_rank |-> None,
      investment_style |-> Some("Growth"), risk_level |-> Some("High")],
     [sector |-> "B", pe_ratio |-> None, avg_historical_cagr |-> Some(2),
      forecast |-> RowOf(24, 24), current_price |-> 1, overall_rank |-> None,
      investment_style |-> None, risk_level |-> None]}

RunAmounts == {RInt(0), RInt(10)}
RunHorizons == {6, 12}
ExpectedCagrs == {Rat(24, 100), Rat(30, 100)}

\* Parameters of the stock-selection request.
RequestHorizons == {12, 50}
RequestMaxStocks == {2, DefaultMaxStocks}
RequestMinStocks == {2, 3}

Feasible_Either(portfolio_cagr, expected_cagr, count, min_stocks) ==
    RLeq(expected_cagr, portfolio_cagr) \/ count >= min_stocks

\* Line 191: portfolio_cagr >= expected_cagr and len(selected_stocks) >= min_stocks
Feasible(portfolio_cagr, expected_cagr, count, min_stocks) ==
    RLeq(expected_cagr, portfolio_cagr) /\ count >= min_stocks

\* Lines 211, 217: f"{x*100:.1f}%", as the number of tenths of a percent.
PercentString(x) == PyRound(RMul(x, RInt(1000)))

\* Lines 147-154: the sector_selections entry of a Round-1 pick.
SectorSelection(row, df) ==
    [sector |-> row.sector,
     selected_stock |-> row.ticker,
     avg_cagr |-> row.avg_historical_cagr,
     pe_ratio |-> row.pe_ratio,
     peg_ratio |-> row.peg_ratio,
     total_in_sector |-> Len(SelectSeq(df, LAMBDA r : r.sector = row.sector))]

\* Lines 172-182: the "<sector>_additional" entry of a Round-2 addition.
AdditionalSelection(row) ==
    [sector |-> row.sector,
     selected_stock |-> row.ticker,
     avg_cagr |-> row.avg_historical_cagr,
     pe_ratio |-> row.pe_ratio,
     peg_ratio |-> row.peg_ratio]

\* Lines 194-217.
SelectionRationale(df, sectors, round1, round2, portfolio_cagr, feasible, expected_cagr) ==
    [total_universe |-> Len(df),
     after_quality_filters |-> Len(df),
     sectors_available |-> Len(sectors),
     stocks_selected |-> Len(round1) + Len(round2),
     sector_breakdown |->
         [picks |-> [k \in 1..Len(round1) |-> SectorSelection(round1[k], df)],
          additional |-> [k \in 1..Len(round2) |-> AdditionalSelection(round2[k])]],
     achieved_cagr |-> PercentString(portfolio_cagr),
     feasible |-> feasible,
     fallback_used |-> FALSE,
     feasibility_note |->
         IF feasible THEN None
         ELSE Some([target |-> PercentString(expected_cagr),
                    best |-> PercentString(portfolio_cagr)])]

SelectorRaised_EmptySelection(error) ==
    [error |-> "none", round1 |-> <<>>, round2 |-> <<>>, selected |-> <<>>,
     feasible |-> FALSE, achieved_cagr |-> RInt(0), rationale |-> <<>>]

\* Lines 86, 120: raise ValueError(error); nothing is returned.
SelectorRaised(error) ==
    [error |-> error, round1 |-> <<>>, round2 |-> <<>>, selected |-> <<>>,
     feasible |-> FALSE, achieved_cagr |-> RInt(0), rationale |-> <<>>]

\* Lines 119-224: the selector from the end of the per-stock loop on, for the
\* stock_data rows the loop has collected.
SelectionFrom(stock_data, args) ==
    LET df == QualityFilter(stock_data)
        sectors == Unique(df, {})
        round1 == Round1(df, sectors)
        round2 == Round2(df, round1, args.max_stocks, args.peg_threshold)
        selected == round1 \o round2
        portfolio_cagr == PortfolioCagr(selected)
        feasible == Feasible(portfolio_cagr, args.expected_cagr,
                             Len(selected), args.min_stocks)
    IN  IF stock_data = <<>> THEN SelectorRaised("No stocks with valid data found")
        ELSE [error |-> "none",
              round1 |-> round1,
              round2 |-> round2,
              selected |-> selected,
              feasible |-> feasible,
              achieved_cagr |-> portfolio_cagr,
              rationale |-> SelectionRationale(df, sectors, round1, round2,
                                               portfolio_cagr, feasible,
                                               args.expected_cagr)]

\* Lines 83-224: what advanced_stock_selector returns, or the error it raises,
\* for the stocks that get_active_stocks returned.
SelectorResult(stocks, args) ==
    IF stocks = <<>> THEN SelectorRaised("No active stocks found in database")
    ELSE SelectionFrom(BuildStockData(stocks, 1, get_forecast_column(args.horizon_months)),
                       args)

SelectorCallArgs_TargetAsThreshold(expected_cagr, horizon_months) ==
    [expected_cagr |-> expected_cagr, horizon_months |-> horizon_months,
     max_stocks |-> DefaultMaxStocks, min_stocks |-> DefaultMinStocks,
     peg_threshold |-> expected_cagr]

\* Lines 455-457: the selector is called with the target and the horizon only.
SelectorCallArgs(expected_cagr, horizon_months) ==
    [expected_cagr |-> expected_cagr, horizon_months |-> horizon_months,
     max_stocks |-> DefaultMaxStocks, min_stocks |-> DefaultMinStocks,
     peg_threshold |-> DefaultPegThreshold]

\* Line 220: the Stock objects of the selected rows.
SelectedStockObjects(stocks, selected) ==
    [k \in 1..Len(selected) |-> stocks[selected[k].ticker]]

\* A rate that is a whole number of hundredths, as that number.
Hundredths(rate) == (rate.n * 100) \div rate.d

InflationAssumption == 6

\* datetime.now() of line 512.
Clock == {1, 2}

\* Lines 473-481: the weights summed per sector.
SectorAllocation(stocks, allocations) ==
    [sector \in {stocks[i].sector : i \in 1..Len(stocks)} |->
        RSum([k \in 1..Len(SelectSeq([i \in 1..Len(stocks) |-> i],
                                     LAMBDA i : stocks[i].sector = sector)) |->
                 allocations[SelectSeq([i \in 1..Len(stocks) |-> i],
                                       LAMBDA i : stocks[i].sector = sector)[k]].weight])]

\* Truthiness of an Optional[str]: None and '' are falsy.
HasLabel(label) == label # None /\ label[1] # ""

\* The sum of the weights of the allocations whose stock carries the label.
LabelWeight(stocks, allocations, Label(_), value) ==
    RSum([k \in 1..Len(SelectSeq([i \in 1..Len(stocks) |-> i],
                                 LAMBDA i : Label(stocks[i]) = Some(value))) |->
             allocations[SelectSeq([i \in 1..Len(stocks) |-> i],
                                   LAMBDA i : Label(stocks[i]) = Some(value))[k]].weight])

\* Lines 474-475, 482-485, 510-511: the weights summed per style or per risk
\* level over the stocks that carry one; None when the dict stayed empty.
LabelAllocation(stocks, allocations, Label(_)) ==
    LET labelled == {j \in 1..Len(stocks) : HasLabel(Label(stocks[j]))}
    IN  IF labelled = {} THEN None
        ELSE Some([value \in {Label(stocks[i])[1] : i \in labelled} |->
                      LabelWeight(stocks, allocations, Label, value)])

InvestmentStyle(stock) == stock.investment_style
RiskLevel(stock) == stock.risk_level

StyleAllocation_NeverAbsent(stocks, allocations) ==
    LET style_allocation == LabelAllocation(stocks, allocations, InvestmentStyle)
    IN  IF style_allocation = None THEN Some(<<>>) ELSE style_allocation

\* Line 510: dict(style_allocation) if style_allocation else None
StyleAllocation(stocks, allocations) ==
    LabelAllocation(stocks, allocations, InvestmentStyle)

\* Line 511: dict(risk_allocation) if risk_allocation else None
RiskAllocation(stocks, allocations) ==
    LabelAllocation(stocks, allocations, RiskLevel)

\* Lines 488-501.
InvestmentSummary(args, selection, financial_projections) ==
    [feasible |-> selection.feasible,
     horizon_years |-> Rat(args.horizon_months, MonthsPerYear),
     horizon_months |-> args.horizon_months,
     expected_cagr |-> RMul(args.expected_cagr, RInt(100)),
     achieved_cagr |-> RMul(selection.achieved_cagr, RInt(100)),
     total_investment |-> financial_projections.total_investment,
     final_value |-> financial_projections.final_value,
     total_gain |-> financial_projections.total_gain,
     money_multiplier |-> financial_projections.money_multiplier,
     monthly_avg_gain |-> financial_projections.monthly_avg_gain,
     total_return_percentage |-> financial_projections.total_return_percentage,
     inflation_beat_margin |->
         RSub(RMul(selection.achieved_cagr, RInt(100)), RInt(InflationAssumption))]

\* Lines 503-514.
ResultBundle(args, selection, stocks, allocations, share_rows, financial_projections, now) ==
    [portfolio_allocations |-> allocations,
     whole_share_allocations |-> share_rows,
     investment_summary |-> InvestmentSummary(args, selection, financial_projections),
     financial_projection |-> financial_projections,
     selection_rationale |-> selection.rationale,
     sector_allocation |-> SectorAllocation(stocks, allocations),
     style_allocation |-> StyleAllocation(stocks, allocations),
     risk_allocation |-> RiskAllocation(stocks, allocations),
     analysis_date |-> now,
     model_version |-> "v1.0"]

RowOrders(n) ==
    {p \in [1..n -> 1..n] : \A i, j \in 1..n : i # j => p[i] # p[j]}

\* Lines 45-51: select(Stock).where(Stock.is_active == True) has no ORDER BY,
\* so the rows of a snapshot may come back in any order; order[k] is the
\* position in rows of the k-th stock returned.
get_active_stocks(rows) ==
    {[order |-> p, stocks |-> [k \in 1..Len(rows) |-> rows[p[k]]]]
         : p \in RowOrders(Len(rows))}

\* universe is the list that get_active_stocks returned to this execution.
RunInit ==
    /\ universe \in UNION {[1..n -> RunStocks] : n \in 0..MaxRunUniverse}
    /\ sel_pc = "idle"
    /\ sel_args = [max_stocks |-> 0, peg_threshold |-> RInt(0), horizon_months |-> 0]
    /\ sel_result = NoResult
    /\ run_pc = "start"
    /\ run_args = [monthly_investment |-> RInt(0), horizon_months |-> 0,
                   expected_cagr |-> RInt(0)]
    /\ results = <<>>

\* api/v1/investment.py lines 165-171: the stock-selection request calls
\* advanced_stock_selector with the parameters of the request.
select_stocks ==
    /\ run_pc = "start"
    /\ \E expected_cagr \in ExpectedCagrs, horizon_months \in RequestHorizons,
          max_stocks \in RequestMaxStocks, min_stocks \in RequestMinStocks :
         LET args == [expected_cagr |-> expected_cagr, horizon_months |-> horizon_months,
                      max_stocks |-> max_stocks, min_stocks |-> min_stocks,
                      peg_threshold |-> DefaultPegThreshold]
             selection == SelectorResult(universe, args)
         IN  /\ sel_args' = args
             /\ sel_result' = selection
             /\ run_pc' = IF selection.error = "none" THEN "selection_returned"
                          ELSE "selection_failed"
    /\ UNCHANGED <<universe, sel_pc, allocVars, projVars, run_args, results, evalVars>>

\* Lines 454-457: step 1 of run_complete_analysis; an error of the selector
\* ends the run.
RunSelection ==
    /\ run_pc = "start"
    /\ \E monthly_investment \in RunAmounts, horizon_months \in RunHorizons,
          expected_cagr \in ExpectedCagrs :
         LET args == SelectorCallArgs(expected_cagr, horizon_months)
             selection == SelectorResult(universe, args)
         IN  /\ run_args' = [monthly_investment |-> monthly_investment,
                             horizon_months |-> horizon_months,
                             expected_cagr |-> expected_cagr]
             /\ sel_args' = args
             /\ sel_result' = selection
             /\ run_pc' = IF selection.error = "none" THEN "selected" ELSE "raised"
    /\ UNCHANGED <<universe, sel_pc, allocVars, projVars, results, evalVars>>

\* Lines 459-462 with 285-288: step 2, the solver succeeds.
RunOptimizeSucceeds ==
    /\ run_pc = "selected"
    /\ LET stocks == SelectedStockObjects(universe, sel_result.selected)
       IN  /\ opt_stocks' = stocks
           /\ opt_amount' = run_args.monthly_investment
           /\ \E x \in FeasibleWeights(Len(stocks)) :
                portfolio_allocations' = Allocations(stocks, x, run_args.monthly_investment)
    /\ solver' = "success"
    /\ run_pc' = "optimized"
    /\ UNCHANGED <<alloc_pc, whole_share_allocations, selVars, projVars,
                   run_args, results, evalVars>>

\* Lines 459-462 with 289-291: step 2, the solver returns without success.
RunOptimizeFails ==
    /\ run_pc = "selected"
    /\ LET stocks == SelectedStockObjects(universe, sel_result.selected)
       IN  /\ opt_stocks' = stocks
           /\ opt_amount' = run_args.monthly_investment
           /\ portfolio_allocations' =
                  Allocations(stocks, EqualWeights(Len(stocks)), run_args.monthly_investment)
    /\ solver' = "failure"
    /\ run_pc' = "optimized"
    /\ UNCHANGED <<alloc_pc, whole_share_allocations, selVars, projVars,
                   run_args, results, evalVars>>

\* Lines 459-462 with 292-294: step 2, the solver raises.
RunOptimizeRaises ==
    /\ run_pc = "selected"
    /\ LET stocks == SelectedStockObjects(universe, sel_result.selected)
       IN  /\ opt_stocks' = stocks
           /\ opt_amount' = run_args.monthly_investment
           /\ portfolio_allocations' =
                  Allocations(stocks, EqualWeights(Len(stocks)), run_args.monthly_investment)
    /\ solver' = "raised"
    /\ run_pc' = "optimized"
    /\ UNCHANGED <<alloc_pc, whole_share_allocations, selVars, projVars,
                   run_args, results, evalVars>>

\* Lines 464-467: step 3; ZeroDivisionError for a total investment of zero.
RunProjections ==
    /\ run_pc = "optimized"
    /\ proj_args' = [monthly_investment |-> run_args.monthly_investment,
                     horizon_months |-> run_args.horizon_months,
                     achieved_cagr |-> Hundredths(sel_result.achieved_cagr)]
    /\ IF RMul(run_args.monthly_investment, RInt(run_args.horizon_months)) = RInt(0)
       THEN /\ projection' = <<>>
            /\ run_pc' = "raised"
       ELSE /\ projection' = FinancialProjections(run_args.monthly_investment,
                                                  run_args.horizon_months,
                                                  Hundredths(sel_result.achieved_cagr))
            /\ run_pc' = "projected"
    /\ UNCHANGED <<proj_pc, selVars, allocVars, run_args, results, evalVars>>

\* Lines 469-470: step 4. With a current_price of zero the division of line
\* 409 yields inf or nan and round() of line 412 raises.
RunWholeShares ==
    /\ run_pc = "projected"
    /\ IF \E i \in 1..Len(portfolio_allocations) :
              portfolio_allocations[i].current_price = 0
       THEN /\ whole_share_allocations' = <<>>
            /\ run_pc' = "raised"
       ELSE LET rows == ShareRows(portfolio_allocations)
                total_share_cost == TotalShareCost(rows)
            IN  IF total_share_cost = 0
                THEN /\ whole_share_allocations' = <<>>
                     /\ run_pc' = "raised"
                ELSE /\ whole_share_allocations' = WithActualWeights(rows, total_share_cost)
                     /\ run_pc' = "reconciled"
    /\ UNCHANGED <<opt_stocks, opt_amount, alloc_pc, solver, portfolio_allocations,
                   selVars, projVars, run_args, results, evalVars>>

\* Lines 472-517: step 5, the diversification metrics and the bundle.
RunReturns ==
    /\ run_pc = "reconciled"
    /\ \E now \in Clock :
         results' = Some(ResultBundle(run_args, sel_result, opt_stocks, portfolio_allocations,
                                      whole_share_allocations, projection, now))
    /\ run_pc' = "returned"
    /\ UNCHANGED <<selVars, allocVars, projVars, run_args, evalVars>>

run_complete_analysis ==
    \/ RunSelection
    \/ RunOptimizeSucceeds
    \/ RunOptimizeFails
    \/ RunOptimizeRaises
    \/ RunProjections
    \/ RunWholeShares
    \/ RunReturns

RunIdle ==
    /\ run_pc = "idle"
    /\ run_args = [monthly_investment |-> RInt(0), horizon_months |-> 0,
                   expected_cagr |-> RInt(0)]
    /\ results = <<>>

EvalIdle ==
    /\ objective_eval = <<>>
    /\ horizon_request = <<>>
    /\ tasks = <<>>
    /\ http = <<>>

InitSelect == SelectInit /\ AllocIdle /\ ProjIdle /\ RunIdle /\ EvalIdle

NextSelect == advanced_stock_selector

SpecSelect == InitSelect /\ [][NextSelect]_vars

\* A universe for the tie-break of Round 1: three sector-A instruments of one
\* PEG that differ in overall_rank only, one of a higher PEG and the best rank,
\* one in sector B, and one that fails the gate.
RankedStocks ==
    {[sector |-> "A", pe_ratio |-> Some(1), avg_historical_cagr |-> Some(2),
      forecast |-> Row(Some(10)), overall_rank |-> rank]
         : rank \in {None, Some(1), Some(2)}}
    \cup
    {[sector |-> "A", pe_ratio |-> Some(2), avg_historical_cagr |-> Some(1),
      forecast |-> Row(Some(10)), overall_rank |-> Some(1)],
     [sector |-> "B", pe_ratio |-> Some(1), avg_historical_cagr |-> Some(2),
      forecast |-> Row(Some(10)), overall_rank |-> Some(3)],
     [sector |-> "B", pe_ratio |-> None, avg_historical_cagr |-> Some(2),
      forecast |-> Row(Some(10)), overall_rank |-> Some(1)]}

RankedInit ==
    /\ universe \in UNION {[1..n -> RankedStocks] : n \in 0..MaxUniverse}
    /\ sel_pc = "start"
    /\ sel_args = [max_stocks |-> 0, peg_threshold |-> RInt(0), horizon_months |-> 0]
    /\ sel_result = NoResult

InitRanked == RankedInit /\ AllocIdle /\ ProjIdle /\ RunIdle /\ EvalIdle

SpecRanked == InitRanked /\ [][NextSelect]_vars

InitAlloc == SelectIdle /\ AllocInit /\ ProjIdle /\ RunIdle /\ EvalIdle

NextAlloc ==
    \/ optimize_portfolio
    \/ calculate_whole_share_allocation
    \/ standalone_optimize_portfolio

SpecAlloc == InitAlloc /\ [][NextAlloc]_vars

InitProj == SelectIdle /\ AllocIdle /\ ProjInit /\ RunIdle /\ EvalIdle

NextProj ==
    \/ compute_projection
    \/ calculate_financial_projections
    \/ compute_projections

SpecProj == InitProj /\ [][NextProj]_vars

InitRun == RunInit /\ AllocIdle /\ ProjIdle /\ EvalIdle

NextRun ==
    \/ select_stocks
    \/ run_complete_analysis

SpecRun == InitRun /\ [][NextRun]_vars

-----------------------------------------------------------------------------
(* The objective handed to scipy.optimize.minimize, in the engine and in    *)
(* the standalone script                                                    *)

\* investment_engine.py line 280, test_main.py line 278: bounds (0, 1) on
\* every weight. The solver may evaluate the objective anywhere in this box;
\* the equality constraint only holds at the point it returns.
BoxWeights(n) ==
    {[i \in 1..n |-> Rat(g[i], GridSteps)] : g \in [1..n -> 0..GridSteps]}

\* np.dot(weights, returns)
PortfolioReturn(weights, returns) ==
    RSum([i \in 1..Len(weights) |-> RMul(weights[i], returns[i])])

\* np.dot(weights.T, np.dot(cov_matrix, weights)), cov_matrix = diag(risks ** 2);
\* port_vol is its square root.
PortfolioVariance(weights, risks) ==
    RSum([i \in 1..Len(weights) |->
             RMul(RMul(weights[i], weights[i]), RMul(risks[i], risks[i]))])

\* A float64 quotient -port_return / port_vol: a number when port_vol # 0,
\* nan for -0.0 / 0.0 and an infinity for -x / 0.0 (numpy warns, does not raise).
\* The value stands for num / sqrt(den_squared).
NegativeQuotient(port_return, variance) ==
    [kind |-> IF variance # RInt(0) THEN "number"
              ELSE IF port_return = RInt(0) THEN "nan" ELSE "inf",
     num |-> RMul(RInt(-1), port_return),
     den_squared |-> variance]

\* investment_engine.py lines 273-276.
objective(weights, returns, risks) ==
    NegativeQuotient(PortfolioReturn(weights, returns),
                     PortfolioVariance(weights, risks))

\* test_main.py lines 268-274: if port_vol == 0: return -port_return.
standalone_objective(weights, returns, risks) ==
    IF PortfolioVariance(weights, risks) = RInt(0)
    THEN [kind |-> "number",
          num |-> RMul(RInt(-1), PortfolioReturn(weights, returns)),
          den_squared |-> RInt(1)]
    ELSE NegativeQuotient(PortfolioReturn(weights, returns),
                          PortfolioVariance(weights, risks))

\* Rows of the standalone script's selected_df: the forecast column and
\* PE_Ratio, which its selector keeps strictly positive.
StandaloneRows ==
    {[forecast |-> 12, PE_Ratio |-> 2], [forecast |-> 24, PE_Ratio |-> 1]}

ObjectiveInit ==
    /\ opt_stocks \in UNION {[1..n -> {s \in SelectedStocks : s.current_price = 1}]
                                 : n \in 1..MaxSelected}
    /\ opt_amount = RInt(0)
    /\ alloc_pc = "idle"
    /\ solver = "none"
    /\ portfolio_allocations = <<>>
    /\ whole_share_allocations = <<>>
    /\ objective_eval = <<>>
    /\ horizon_request = <<>>
    /\ tasks = <<>>
    /\ http = <<>>

\* The solver evaluates the engine's objective at one point of the box;
\* returns and risks as built on lines 255-256.
EngineObjectiveEvaluated ==
    /\ objective_eval = <<>>
    /\ LET n == Len(opt_stocks)
           returns == [i \in 1..n |-> ExpectedReturn(opt_stocks[i])]
           risks == [i \in 1..n |-> Risk(opt_stocks[i])]
       IN  \E weights \in BoxWeights(n) :
               objective_eval' = <<[fn |-> "engine", weights |-> weights,
                                    returns |-> returns, risks |-> risks,
                                    value |-> objective(weights, returns, risks)]>>
    /\ UNCHANGED <<selVars, allocVars, projVars, runVars, horizon_request, tasks, http>>

\* The solver evaluates the standalone objective at one point of the box;
\* returns = forecast / 100 and risks = PE_Ratio / 100 (test_main.py 262-265).
StandaloneObjectiveEvaluated ==
    /\ objective_eval = <<>>
    /\ \E n \in 1..MaxSelected :
         \E selected_df \in [1..n -> StandaloneRows] :
           LET returns == [i \in 1..n |-> Rat(selected_df[i].forecast, 100)]
               risks == [i \in 1..n |-> Rat(selected_df[i].PE_Ratio, 100)]
           IN  \E weights \in BoxWeights(n) :
                   objective_eval' =
                       <<[fn |-> "standalone", weights |-> weights,
                          returns |-> returns, risks |-> risks,
                          value |-> standalone_objective(weights, returns, risks)]>>
    /\ UNCHANGED <<selVars, allocVars, projVars, runVars, horizon_request, tasks, http>>

InitObjective == SelectIdle /\ ObjectiveInit /\ ProjIdle /\ RunIdle

NextObjective ==
    \/ EngineObjectiveEvaluated
    \/ StandaloneObjectiveEvaluated

SpecObjective == InitObjective /\ [][NextObjective]_vars

-----------------------------------------------------------------------------
(* Horizon resolution: the plan request validator, the stock-selection      *)
(* request, get_forecast_column and StockForecast.get_forecast_for_horizon  *)

\* schemas/investment.py lines 24-25 and schemas/stock.py line 79:
\* horizon_months: int = Field(..., ge=12, le=60)
MinHorizonMonths == 12
MaxHorizonMonths == 60

\* schemas/investment.py line 43.
supported_horizons == <<12, 18, 24, 36, 48, 60>>

\* Python's min(seq, key=...): the first element of seq whose key is minimal.
FirstClosest(seq, v) ==
    seq[CHOOSE i \in 1..Len(seq) :
            \A j \in 1..Len(seq) :
                \/ Abs(seq[i] - v) < Abs(seq[j] - v)
                \/ Abs(seq[i] - v) = Abs(seq[j] - v) /\ i <= j]

\* schemas/investment.py lines 40-45.
validate_horizon(v) == FirstClosest(supported_horizons, v)

\* The keys of forecast_mapping in insertion order (models/stock.py 107-115).
forecast_mapping_keys == <<6, 12, 18, 24, 36, 48, 60>>

\* models/stock.py lines 103-123, as the bucket whose value is returned:
\* the closest horizon among the columns that are not NULL, None without any.
get_forecast_for_horizon(forecast_row, horizon_months) ==
    LET available_horizons ==
            SelectSeq(forecast_mapping_keys, LAMBDA h : forecast_row[h] # None)
    IN  IF available_horizons = <<>> THEN None
        ELSE Some(FirstClosest(available_horizons, horizon_months))

\* test_main.py lines 167-179: the selector's own mapping of the horizon.
SelectorForecastColumn(horizon_months) ==
    IF horizon_months <= 12 THEN 12
    ELSE IF horizon_months <= 18 THEN 18
    ELSE IF horizon_months <= 24 THEN 24
    ELSE IF horizon_months <= 36 THEN 36
    ELSE IF horizon_months <= 48 THEN 48
    ELSE 60

\* test_main.py lines 100-103, 159-161: FORECAST_MAP.get(horizon_months,
\* "Forecast_24M"); FORECAST_MAP has no 6-month entry.
standalone_get_forecast_column(horizon_months) ==
    IF horizon_months \in Buckets \ {6} THEN horizon_months ELSE 24

HorizonInit ==
    /\ horizon_request \in
           {<<[pc |-> "start", requested |-> h, path |-> "none", column |-> 0,
               return_column |-> 0]>>
                : h \in MinHorizonMonths..MaxHorizonMonths}
    /\ objective_eval = <<>>
    /\ tasks = <<>>
    /\ http = <<>>

\* api/v1/investment.py line 69: InvestmentPlanRequest has run validate_horizon
\* before run_complete_analysis hands horizon_months to the selector.
PlanRequestHorizon ==
    /\ horizon_request[1].pc = "start"
    /\ horizon_request' =
           <<[horizon_request[1] EXCEPT
                 !.pc = "resolved", !.path = "plan",
                 !.column = get_forecast_column(
                                validate_horizon(horizon_request[1].requested))]>>
    /\ UNCHANGED <<selVars, allocVars, projVars, runVars, objective_eval, tasks, http>>

\* api/v1/investment.py lines 165-171: StockSelectionRequest.horizon_months has
\* no validator; the selector receives it as sent.
SelectionRequestHorizon ==
    /\ horizon_request[1].pc = "start"
    /\ horizon_request' =
           <<[horizon_request[1] EXCEPT
                 !.pc = "resolved", !.path = "selection",
                 !.column = get_forecast_column(horizon_request[1].requested)]>>
    /\ UNCHANGED <<selVars, allocVars, projVars, runVars, objective_eval, tasks, http>>

\* StockForecast.get_forecast_for_horizon on a forecast row with every column
\* set; no caller in the engine reaches it.
ForecastForHorizon ==
    /\ horizon_request[1].pc = "start"
    /\ horizon_request' =
           <<[horizon_request[1] EXCEPT
                 !.pc = "resolved", !.path = "forecast_row",
                 !.column = get_forecast_for_horizon(
                                Row(Some(1))[1], horizon_request[1].requested)[1]]>>
    /\ UNCHANGED <<selVars, allocVars, projVars, runVars, objective_eval, tasks, http>>

\* test_main.py lines 360-404: one plan request of the standalone app. The
\* selector takes the achieved rate from the column of its own ladder (lines
\* 167-179, 229-233); the optimizer (lines 259-262) and the response (line
\* 402) read expected returns from get_forecast_column (lines 159-161).
StandalonePlanHorizon ==
    /\ horizon_request[1].pc = "start"
    /\ horizon_request' =
           <<[horizon_request[1] EXCEPT
                 !.pc = "resolved", !.path = "standalone",
                 !.column = SelectorForecastColumn(horizon_request[1].requested),
                 !.return_column =
                     standalone_get_forecast_column(horizon_request[1].requested)]>>
    /\ UNCHANGED <<selVars, allocVars, projVars, runVars, objective_eval, tasks, http>>

InitHorizon == SelectIdle /\ AllocIdle /\ ProjIdle /\ RunIdle /\ HorizonInit

NextHorizon ==
    \/ PlanRequestHorizon
    \/ SelectionRequestHorizon
    \/ ForecastForHorizon
    \/ StandalonePlanHorizon

SpecHorizon == InitHorizon /\ [][NextHorizon]_vars

-----------------------------------------------------------------------------
(* The standalone app (test_main.py): its selector, its optimizer and its   *)
(* plan handler over the process-wide table STOCK_DATA                      *)

\* test_main.py line 367.
MinimumInvestment == 50000

\* test_main.py lines 182-191: the quality rows of a copy of the table. A
\* missing PE_Ratio or Avg_Historical_CAGR is NaN and fails every comparison.
RECURSIVE QualityFrame(_, _)
QualityFrame(table, i) ==
    IF i > Len(table) THEN <<>>
    ELSE IF /\ table[i].pe_ratio # None
            /\ table[i].avg_historical_cagr # None
            /\ table[i].pe_ratio[1] > 0
            /\ table[i].avg_historical_cagr[1] > 0
         THEN <<[ticker |-> i,
                 sector |-> table[i].sector,
                 pe_ratio |-> table[i].pe_ratio[1],
                 peg_ratio |-> Rat(table[i].pe_ratio[1],
                                   table[i].avg_historical_cagr[1]),
                 forecast |-> [b \in Buckets \ {6} |-> table[i].forecast[1][b][1]]]>>
                  \o QualityFrame(table, i + 1)
         ELSE QualityFrame(table, i + 1)

\* test_main.py lines 193-224: Round 1 as in the engine; Round 2 adds every
\* remaining row with PEG < 1.0, in table order and without a cap.
StandaloneSelected(table) ==
    LET quality_df == QualityFrame(table, 1)
        round1 == Round1(quality_df, Unique(quality_df, {}))
        selected_tickers == TickersOf(round1)
    IN  round1 \o SelectSeq(quality_df,
                            LAMBDA r : /\ RLess(r.peg_ratio, RInt(1))
                                       /\ r.ticker \notin selected_tickers)

\* test_main.py lines 229-233: the mean of the selector's forecast column, / 100.
StandaloneCagr(selected_df, horizon_months) ==
    IF Len(selected_df) > 0
    THEN RDiv(RSum([k \in 1..Len(selected_df) |->
                       RInt(selected_df[k].forecast[
                                SelectorForecastColumn(horizon_months)])]),
              RInt(Len(selected_df) * 100))
    ELSE RInt(0)

HttpError(status_code) == [status |-> "raised", status_code |-> status_code, plan |-> None]

\* test_main.py lines 374-404, 418: the allocation and the achieved rate of
\* the response, for the weights the solver step left.
StandalonePlan(selected_df, args, weights) ==
    [status |-> "returned", status_code |-> 200,
     plan |-> Some(
         [portfolio_allocation |->
              [k \in 1..Len(selected_df) |->
                  [ticker |-> selected_df[k].ticker,
                   sector |-> selected_df[k].sector,
                   weight |-> weights[k],
                   monthly_allocation |-> RMul(weights[k], args.monthly_investment),
                   pe_ratio |-> selected_df[k].pe_ratio,
                   expected_return |->
                       selected_df[k].forecast[
                           standalone_get_forecast_column(args.horizon_months)],
                   peg_ratio |-> selected_df[k].peg_ratio]],
          achieved_cagr |->
              RMul(StandaloneCagr(selected_df, args.horizon_months), RInt(100))])]

\* test_main.py lines 360-444: what the handler may answer over the table.
StandaloneOutcomes(table, args) ==
    IF RLess(args.monthly_investment, RInt(MinimumInvestment))
    THEN {HttpError(400)}
    ELSE IF args.horizon_months < MinHorizonMonths
            \/ args.horizon_months > MaxHorizonMonths
    THEN {HttpError(400)}
    ELSE IF StandaloneSelected(table) = <<>> THEN {HttpError(500)}
    ELSE {StandalonePlan(StandaloneSelected(table), args, weights) :
              weights \in SolverWeights(Len(StandaloneSelected(table)))}

-----------------------------------------------------------------------------
(* Plan requests in flight together. Each request has its own engine        *)
(* (api/v1/investment.py line 62) over its own session (database/session.py *)
(* lines 37-47); a request yields at each await of the selector.            *)

MaxTaskUniverse == 2

TaskIds == {1, 2}

\* Two sector-B instruments: one passes the gate, with forecasts that differ
\* between the two horizons, and one does not.
TaskStocks ==
    {stock \in RunStocks :
        stock.sector = "B" /\ stock.current_price = 1}

\* The two requests ask for different horizons.
TaskArgs(t) ==
    [monthly_investment |-> RInt(10),
     horizon_months |-> IF t = 1 THEN 12 ELSE 6,
     expected_cagr |-> Rat(24, 100)]

AnalysisRaised(error) == [status |-> "raised", error |-> error, bundle |-> None]

\* Lines 459-517: run_complete_analysis after the selector has returned, for
\* the weights the solver step left and the time of line 512.
AnalysisOutcome(stocks, selection, args, financial_projections, weights, now) ==
    LET selected_stocks == SelectedStockObjects(stocks, selection.selected)
        allocations == Allocations(selected_stocks, weights, args.monthly_investment)
        rows == ShareRows(allocations)
        total_share_cost == TotalShareCost(rows)
    IN  IF RMul(args.monthly_investment, RInt(args.horizon_months)) = RInt(0)
        THEN AnalysisRaised("ZeroDivisionError")
        ELSE IF \E i \in 1..Len(allocations) : allocations[i].current_price = 0
        THEN AnalysisRaised("ZeroDivisionError")
        ELSE IF total_share_cost = 0
        THEN AnalysisRaised("ZeroDivisionError")
        ELSE [status |-> "returned", error |-> "none",
              bundle |-> Some(ResultBundle(
                             args, selection, selected_stocks, allocations,
                             WithActualWeights(rows, total_share_cost),
                             financial_projections, now))]

\* Lines 119-224 and 459-517: everything after the last await of the selector,
\* for the stocks returned by get_active_stocks and the rows collected.
AnalysisOutcomes(stocks, stock_data, args) ==
    LET selection ==
            SelectionFrom(stock_data,
                          SelectorCallArgs(args.expected_cagr, args.horizon_months))
        financial_projections ==
            FinancialProjections(args.monthly_investment, args.horizon_months,
                                 Hundredths(selection.achieved_cagr))
    IN  IF selection.error # "none" THEN {AnalysisRaised(selection.error)}
        ELSE {AnalysisOutcome(stocks, selection, args, financial_projections,
                              weights, now) :
                  weights \in SolverWeights(Len(selection.selected)), now \in Clock}

\* A plan request of the standalone app: the minimum amount, horizons 12 and 30.
StandaloneArgs(t) ==
    [monthly_investment |-> RInt(MinimumInvestment),
     horizon_months |-> IF t = 1 THEN 12 ELSE 30,
     expected_cagr |-> RInt(15)]

TaskStockData_Shared(t) == tasks[1].stock_data

\* Line 89: stock_data is a local list of the coroutine of request t.
TaskStockData(t) == tasks[t].stock_data

\* Lines 101-117: the rows after the forecast of the stock at position i came back.
AfterForecast(t) ==
    LET stocks == tasks[t].stocks
        forecast_col == get_forecast_column(tasks[t].args.horizon_months)
    IN  IF PassesGate(stocks[tasks[t].i], forecast_col)
        THEN Append(TaskStockData(t), StockData(stocks, tasks[t].i, forecast_col))
        ELSE TaskStockData(t)

TaskInit ==
    /\ universe \in UNION {[1..n -> TaskStocks] : n \in 0..MaxTaskUniverse}
    /\ sel_pc = "idle"
    /\ sel_args = [max_stocks |-> 0, peg_threshold |-> RInt(0), horizon_months |-> 0]
    /\ sel_result = NoResult
    /\ tasks \in [TaskIds -> [app : {"engine", "standalone"}, pc : {"start"},
                              args : {TaskArgs(t) : t \in TaskIds}
                                         \cup {StandaloneArgs(t) : t \in TaskIds},
                              stocks : {<<>>}, i : {0}, stock_data : {<<>>},
                              outcome : {None}]]
    /\ \A t \in TaskIds :
           tasks[t].args = IF tasks[t].app = "engine" THEN TaskArgs(t)
                           ELSE StandaloneArgs(t)
    /\ objective_eval = <<>>
    /\ horizon_request = <<>>
    /\ http = <<>>

\* test_main.py lines 360-444: the standalone handler has no await, so the
\* request runs from start to end in one step; line 182 copies the table.
StandalonePlanRequest(t) ==
    /\ tasks[t].app = "standalone"
    /\ tasks[t].pc = "start"
    /\ \E outcome \in StandaloneOutcomes(universe, tasks[t].args) :
         tasks' = [tasks EXCEPT ![t].pc = outcome.status,
                                ![t].outcome = Some(outcome)]
    /\ UNCHANGED <<selVars, allocVars, projVars, runVars, objective_eval, horizon_request,
                   http>>

\* Line 83: await self.get_active_stocks(); lines 85-86 raise without stocks.
TaskGetActiveStocks(t) ==
    /\ tasks[t].app = "engine"
    /\ tasks[t].pc = "start"
    /\ \E returned \in get_active_stocks(universe) :
         tasks' = [tasks EXCEPT ![t] =
             IF returned.stocks = <<>>
             THEN [@ EXCEPT !.pc = "raised",
                            !.outcome = Some(AnalysisRaised(
                                            "No active stocks found in database"))]
             ELSE [@ EXCEPT !.pc = "loop", !.stocks = returned.stocks, !.i = 1]]
    /\ UNCHANGED <<selVars, allocVars, projVars, runVars, objective_eval, horizon_request,
                   http>>

\* Lines 94-117: await self.db.execute(forecast_query) of a stock that is not
\* the last one; the request yields again at the next stock.
TaskForecastQuery(t) ==
    /\ tasks[t].pc = "loop"
    /\ tasks[t].i < Len(tasks[t].stocks)
    /\ tasks' = [tasks EXCEPT ![t].stock_data = AfterForecast(t),
                              ![t].i = tasks[t].i + 1]
    /\ UNCHANGED <<selVars, allocVars, projVars, runVars, objective_eval, horizon_request,
                   http>>

\* The await of the last stock: no await follows in the selector or in
\* run_complete_analysis, so the request runs to its end in one step.
TaskCompletes(t) ==
    /\ tasks[t].pc = "loop"
    /\ tasks[t].i = Len(tasks[t].stocks)
    /\ \E outcome \in AnalysisOutcomes(tasks[t].stocks, AfterForecast(t), tasks[t].args) :
         tasks' = [tasks EXCEPT ![t].stock_data = AfterForecast(t),
                                ![t].i = tasks[t].i + 1,
                                ![t].pc = outcome.status,
                                ![t].outcome = Some(outcome)]
    /\ UNCHANGED <<selVars, allocVars, projVars, runVars, objective_eval, horizon_request,
                   http>>

InitConcurrent == TaskInit /\ AllocIdle /\ ProjIdle /\ RunIdle

NextConcurrent ==
    \E t \in TaskIds :
        \/ StandalonePlanRequest(t)
        \/ TaskGetActiveStocks(t)
        \/ TaskForecastQuery(t)
        \/ TaskCompletes(t)

SpecConcurrent == InitConcurrent /\ [][NextConcurrent]_vars

-----------------------------------------------------------------------------
(* The investment endpoints (api/v1/investment.py): what a handler raises   *)
(* and what its except clause makes of it                                   *)

\* core/config.py line 73.
MIN_MONTHLY_INVESTMENT == 50000

\* The tickers a request may name: one that exists and one that does not.
RequestTickers == {"HDFCLIFE", "NOSUCH"}

\* services/stock_service.py lines 33-39: scalar_one_or_none() of the lookup.
get_stock_by_ticker(ticker) == IF ticker = "HDFCLIFE" THEN Some(ticker) ELSE None

\* GET /projection takes both numbers from the path, unvalidated.
ProjectionRequests ==
    [endpoint : {"/projection"},
     monthly_investment : {MIN_MONTHLY_INVESTMENT - 1, MIN_MONTHLY_INVESTMENT},
     horizon_months : (MinHorizonMonths - 2)..(MaxHorizonMonths + 2),
     tickers : {<<>>}]

\* POST /optimize-portfolio and /whole-shares take a PortfolioOptimizationRequest,
\* whose amount and horizon have passed the schema.
TickerRequests ==
    [endpoint : {"/optimize-portfolio", "/whole-shares"},
     monthly_investment : {MIN_MONTHLY_INVESTMENT},
     horizon_months : {MinHorizonMonths, MaxHorizonMonths},
     tickers : UNION {[1..n -> RequestTickers] : n \in 1..2}]

Returned == [raised |-> FALSE, status_code |-> 200]
HTTPException(status_code) == [raised |-> TRUE, status_code |-> status_code]

\* Lines 340-372: the try block of calculate_sip_projection.
ProjectionBody(request) ==
    IF request.monthly_investment < MIN_MONTHLY_INVESTMENT THEN HTTPException(400)
    ELSE IF ~(MinHorizonMonths <= request.horizon_months
              /\ request.horizon_months <= MaxHorizonMonths) THEN HTTPException(400)
    ELSE Returned

\* Lines 226-230 and 293-297: the ticker loop of the try block; the first
\* ticker without a stock raises.
TickerBody(request) ==
    IF \E k \in 1..Len(request.tickers) : get_stock_by_ticker(request.tickers[k]) = None
    THEN HTTPException(404)
    ELSE Returned

\* Lines 256-258, 316-318, 374-376: except Exception as e: raise
\* HTTPException(status_code=500, ...). HTTPException is an Exception, so what
\* the try block raised is caught here whatever its status.
ExceptClause(outcome) ==
    IF outcome.raised THEN HTTPException(500) ELSE outcome

EndpointInit ==
    /\ http \in {<<[request |-> request, response |-> None]>>
                    : request \in ProjectionRequests \cup TickerRequests}
    /\ objective_eval = <<>>
    /\ horizon_request = <<>>
    /\ tasks = <<>>

\* Lines 320-376.
calculate_sip_projection ==
    /\ http[1].response = None
    /\ http[1].request.endpoint = "/projection"
    /\ http' = <<[http[1] EXCEPT
                     !.response = Some(ExceptClause(ProjectionBody(http[1].request)))]>>
    /\ UNCHANGED <<selVars, allocVars, projVars, runVars, objective_eval, horizon_request,
                   tasks>>

\* Lines 201-258.
OptimizePortfolioEndpoint ==
    /\ http[1].response = None
    /\ http[1].request.endpoint = "/optimize-portfolio"
    /\ http' = <<[http[1] EXCEPT
                     !.response = Some(ExceptClause(TickerBody(http[1].request)))]>>
    /\ UNCHANGED <<selVars, allocVars, projVars, runVars, objective_eval, horizon_request,
                   tasks>>

\* Lines 260-318.
calculate_whole_shares ==
    /\ http[1].response = None
    /\ http[1].request.endpoint = "/whole-shares"
    /\ http' = <<[http[1] EXCEPT
                     !.response = Some(ExceptClause(TickerBody(http[1].request)))]>>
    /\ UNCHANGED <<selVars, allocVars, projVars, runVars, objective_eval, horizon_request,
                   tasks>>

InitEndpoints == SelectIdle /\ AllocIdle /\ ProjIdle /\ RunIdle /\ EndpointInit

NextEndpoints ==
    \/ calculate_sip_projection
    \/ OptimizePortfolioEndpoint
    \/ calculate_whole_shares

SpecEndpoints == InitEndpoints /\ [][NextEndpoints]_vars

-----------------------------------------------------------------------------
(* Selector properties *)

\* The instrument of the universe that a selected row stands for.
Instrument(row) == universe[row.ticker]

HasPositive(x) == x # None /\ x[1] > 0

PeGrowthOk(stock) ==
    HasPositive(stock.pe_ratio) /\ HasPositive(stock.avg_historical_cagr)

\* The instrument has a forecast row whose value for the resolved bucket is
\* present and not zero.
ForecastOk(stock) ==
    /\ stock.forecast # None
    /\ LET v == stock.forecast[1][get_forecast_column(sel_args.horizon_months)]
       IN  v # None /\ v[1] # 0

\* PEG(s) <= PEG(t) and PEG(s) < PEG(t) for instruments with positive ratios.
PegLeq(s, t) ==
    s.pe_ratio[1] * t.avg_historical_cagr[1] <= t.pe_ratio[1] * s.avg_historical_cagr[1]
PegLess(s, t) ==
    s.pe_ratio[1] * t.avg_historical_cagr[1] < t.pe_ratio[1] * s.avg_historical_cagr[1]

PegBelow(s, threshold) ==
    s.pe_ratio[1] * threshold.d < threshold.n * s.avg_historical_cagr[1]

Positions == 1..Len(universe)
Round1Tickers == {sel_result.round1[k].ticker : k \in 1..Len(sel_result.round1)}
Round2Tickers == {sel_result.round2[k].ticker : k \in 1..Len(sel_result.round2)}

\* C1: no instrument whose PE or average historical growth is absent or <= 0
\* is in the returned selection, as a Round-1 pick or as a Round-2 addition.
C1_QualityGate ==
    sel_pc = "returned" =>
        /\ \A k \in 1..Len(sel_result.selected) :
             PeGrowthOk(Instrument(sel_result.selected[k]))
        /\ \A t \in Round1Tickers \cup Round2Tickers : PeGrowthOk(universe[t])

C1_Witness ==
    /\ sel_pc = "returned"
    /\ sel_result.round2 # <<>>
    /\ \E i \in Positions : ~PeGrowthOk(universe[i])

C3_Round2Threshold ==
    sel_pc = "returned" =>
        /\ sel_result.selected = sel_result.round1 \o sel_result.round2
        /\ \A k \in 1..Len(sel_result.round2) :
             LET row == sel_result.selected[Len(sel_result.round1) + k]
             IN  /\ PegBelow(Instrument(row), sel_args.peg_threshold)
                 /\ row.ticker \notin Round1Tickers
                 /\ k > 1 =>
                        PegLeq(Instrument(sel_result.selected[Len(sel_result.round1) + k - 1]),
                               Instrument(row))

C3_Witness ==
    /\ sel_pc = "returned"
    /\ Len(sel_result.round2) >= 2
    /\ PegLess(Instrument(sel_result.round2[1]), Instrument(sel_result.round2[2]))
    /\ sel_result.round2[2].ticker < sel_result.round2[1].ticker

\* Q: the gate-passing instruments not picked in Round 1 with PEG below the threshold.
Qualifying ==
    {i \in Positions : /\ PeGrowthOk(universe[i])
                       /\ ForecastOk(universe[i])
                       /\ i \notin Round1Tickers
                       /\ PegBelow(universe[i], sel_args.peg_threshold)}

C5_NoRound2WhenFull ==
    (sel_pc = "returned" /\ Len(sel_result.round1) >= sel_args.max_stocks) =>
        /\ sel_result.round2 = <<>>
        /\ sel_result.selected = sel_result.round1

-----------------------------------------------------------------------------
(* Optimizer and reconciler properties *)

AllocationWeights == [i \in 1..Len(portfolio_allocations) |-> portfolio_allocations[i].weight]

\* C6: optimize_portfolio returns one weight per stock, all >= 0 and summing
\* to 1, whether the solver succeeds, fails or raises; on the two failure paths
\* every weight is 1/n.
C6_WeightSimplex ==
    alloc_pc \in {"optimized", "reconciled"} =>
        /\ Len(portfolio_allocations) = Len(opt_stocks)
        /\ \A i \in 1..Len(portfolio_allocations) :
               RLeq(RInt(0), portfolio_allocations[i].weight)
        /\ RSum(AllocationWeights) = RInt(1)
        /\ solver \in {"failure", "raised"} =>
               \A i \in 1..Len(portfolio_allocations) :
                   /\ portfolio_allocations[i].weight.n = 1
                   /\ portfolio_allocations[i].weight.d = Len(opt_stocks)

C6_Witness ==
    /\ alloc_pc = "optimized"
    /\ solver = "raised"
    /\ Len(opt_stocks) >= 2

\* C7: calculate_whole_share_allocation gives every instrument at least one
\* whole share, also for a zero or tiny target allocation, and the
\* actual_weight values sum to 1.
C7_ReconciliationMinimum ==
    alloc_pc \in {"reconciled", "raised"} =>
        /\ alloc_pc = "reconciled"
        /\ Len(whole_share_allocations) = Len(portfolio_allocations)
        /\ \A i \in 1..Len(whole_share_allocations) :
               whole_share_allocations[i].whole_shares >= 1
        /\ RSum([i \in 1..Len(whole_share_allocations) |->
                    whole_share_allocations[i].actual_weight]) = RInt(1)

C7_Witness ==
    /\ alloc_pc = "reconciled"
    /\ \E i, j \in 1..Len(whole_share_allocations) :
         /\ portfolio_allocations[i].monthly_allocation = RInt(0)
         /\ whole_share_allocations[i].whole_shares = 1
         /\ RLess(RInt(0), whole_share_allocations[j].target_shares)
         /\ RLess(whole_share_allocations[j].target_shares, Rat(1, 2))
         /\ whole_share_allocations[j].whole_shares = 1

\* r is an integer nearest to t.
NearestInteger(r, t) ==
    /\ RLeq(RSub(t, Rat(1, 2)), RInt(r))
    /\ RLeq(RInt(r), RAdd(t, Rat(1, 2)))

\* C17: for every allocation the reconciler sets target_shares =
\* monthly_allocation / current_price, whole_shares = max(1, nearest integer to
\* target_shares), share_cost = whole_shares * current_price and actual_weight
\* = share_cost / total_cost, and every returned allocation carries the same
\* total_monthly_investment, the sum of all share_cost values.
C17_ReconciliationFormulas ==
    alloc_pc = "reconciled" =>
        /\ Len(whole_share_allocations) = Len(portfolio_allocations)
        /\ \A i \in 1..Len(whole_share_allocations) :
               LET allocation == portfolio_allocations[i]
                   row == whole_share_allocations[i]
                   total_cost == IntSum([j \in 1..Len(whole_share_allocations) |->
                                            whole_share_allocations[j].share_cost])
               IN  /\ RMul(row.target_shares, RInt(allocation.current_price))
                          = allocation.monthly_allocation
                   /\ \E r \in 0..(row.whole_shares + 1) :
                          /\ NearestInteger(r, row.target_shares)
                          /\ row.whole_shares = Max(1, r)
                   /\ row.share_cost = row.whole_shares * allocation.current_price
                   /\ RMul(row.actual_weight, RInt(total_cost)) = RInt(row.share_cost)
                   /\ row.total_monthly_investment = total_cost

C17_Witness ==
    /\ alloc_pc = "reconciled"
    /\ \E i, j \in 1..Len(whole_share_allocations) :
         /\ i # j
         /\ whole_share_allocations[i].target_shares = Rat(5, 2)
         /\ whole_share_allocations[i].whole_shares = 2
         /\ whole_share_allocations[j].share_cost # whole_share_allocations[i].share_cost
         /\ whole_share_allocations[j].total_monthly_investment
                = whole_share_allocations[i].total_monthly_investment

-----------------------------------------------------------------------------
(* Projector properties, checked under SpecProj.                            *)

\* The sum over the contributions k = 1..month of
\* monthly_investment * (1 + r) ^ (month - k), r = p / Base: each contribution
\* compounded for the months elapsed since it was made, its own month not
\* counted. The numerator is over Base^(month - 1).
RECURSIVE ExclusiveSum(_, _, _)
ExclusiveSum(month, k, p) ==
    IF k > month THEN <<>>
    ELSE BigAdd(BigShift(BigPow(Base + p, month - k), k - 1),
                ExclusiveSum(month, k + 1, p))

ExclusiveValue(monthly_investment, month, p) ==
    [n |-> BigMulSmall(ExclusiveSum(month, 1, p), monthly_investment.n),
     c |-> monthly_investment.d,
     s |-> month - 1]

\* v * (1 + r), r = p / Base
TimesOnePlusRate(v, p) == [n |-> BigMulSmall(v.n, Base + p), c |-> v.c, s |-> v.s + 1]

C9_MonotoneAndZeroRate ==
    proj_pc = "engine"
        => \A m \in 1..proj_args.horizon_months :
               /\ \A lower \in ProjRates :
                      lower <= proj_args.achieved_cagr
                          => ProjectedValues(proj_args.monthly_investment,
                                             proj_args.horizon_months, lower)[m]
                                 <= projection.projected_values[m]
               /\ proj_args.achieved_cagr = 0
                      => RInt(projection.projected_values[m])
                             = projection.cumulative_investment[m]

\* The part of C9 that the code satisfies: projected_values[m] is
\* non-decreasing in the annual growth rate.
C9_MonotoneInRate ==
    proj_pc = "engine"
        => \A m \in 1..proj_args.horizon_months :
               \A lower \in ProjRates :
                   lower <= proj_args.achieved_cagr
                       => ProjectedValues(proj_args.monthly_investment,
                                          proj_args.horizon_months, lower)[m]
                              <= projection.projected_values[m]

\* The worked example of C10: 50000 a month for 12 months at 0.12 a year.
WorkedExample ==
    proj_args = [monthly_investment |-> RInt(50000), horizon_months |-> 12,
                 achieved_cagr |-> 12]

\* C10 as stated: for the worked example the projector returns cumulative
\* invested 600000 at month 12, a projected value at month 12 within 1 unit of
\* 634,130 and a total gain within 1 unit of 34,130.
C10_Original ==
    /\ (proj_pc = "engine" /\ WorkedExample)
           => /\ projection.cumulative_investment[12] = RInt(600000)
              /\ Abs(projection.projected_values[12] - 634130) <= 1
              /\ RLeq(RInt(34129), projection.total_gain)
              /\ RLeq(projection.total_gain, RInt(34131))
    /\ (proj_pc = "summary" /\ WorkedExample)
           => /\ projection.total_investment = 600000
              /\ Abs(projection.future_value - 634130) <= 1
              /\ Abs(projection.gain - 34130) <= 1

\* C10 amended: for the worked example the projector returns cumulative
\* invested 600000 at month 12, a projected value at month 12 within 1 unit of
\* 634,125 and a total gain within 1 unit of 34,125.
C10_WorkedExample ==
    /\ (proj_pc = "engine" /\ WorkedExample)
           => /\ projection.cumulative_investment[12] = RInt(600000)
              /\ Abs(projection.projected_values[12] - 634125) <= 1
              /\ RLeq(RInt(34124), projection.total_gain)
              /\ RLeq(projection.total_gain, RInt(34126))
    /\ (proj_pc = "summary" /\ WorkedExample)
           => /\ projection.total_investment = 600000
              /\ Abs(projection.future_value - 634125) <= 1
              /\ Abs(projection.gain - 34125) <= 1

C10_Witness ==
    /\ proj_pc = "engine"
    /\ WorkedExample
    /\ projection.final_value = projection.projected_values[12]
    /\ Len(projection.projected_values) = 12

-----------------------------------------------------------------------------
(* Pipeline properties, checked under SpecRun.                              *)

\* The selector has run, through either entry point.
SelectorCalled == run_pc # "start"
SelectorReturned == SelectorCalled /\ sel_result.error = "none"

\* The instrument passes the selector's gate of lines 101-103.
PassesSelectorGate(stock) == PeGrowthOk(stock) /\ ForecastOk(stock)

SelectedTickers == [k \in 1..Len(sel_result.selected) |-> sel_result.selected[k].ticker]

C12_FeasibleFlag ==
    SelectorReturned =>
        /\ sel_result.feasible
               <=> /\ RLeq(sel_args.expected_cagr, sel_result.achieved_cagr)
                   /\ Len(sel_result.selected) >= sel_args.min_stocks
        /\ sel_result.rationale.feasible = sel_result.feasible

C12_Witness ==
    /\ run_pc = "selection_returned"
    /\ sel_result.feasible
    /\ sel_result.achieved_cagr = sel_args.expected_cagr
    /\ Len(sel_result.selected) = sel_args.min_stocks

\* C14: the achieved growth rate is the unweighted mean, over the selected
\* instruments of both rounds, each counted once, of the instrument's forecast
\* value for the resolved bucket, divided by 100.
C14_AchievedIsMeanForecast ==
    SelectorReturned =>
        LET col == get_forecast_column(sel_args.horizon_months)
            n == Len(sel_result.selected)
            values == [k \in 1..n |-> universe[SelectedTickers[k]].forecast[1][col][1]]
        IN  /\ Cardinality({SelectedTickers[k] : k \in 1..n}) = n
            /\ n = Len(sel_result.round1) + Len(sel_result.round2)
            /\ RMul(sel_result.achieved_cagr, RInt(100 * n)) = RInt(IntSum(values))

C14_Witness ==
    /\ run_pc = "selection_returned"
    /\ sel_args.horizon_months = 12
    /\ Len(sel_result.round2) >= 1
    /\ \E j, k \in 1..Len(sel_result.selected) :
           sel_result.selected[j].forecast_cagr < sel_result.selected[k].forecast_cagr

\* The rationale and the summary without the feasible flag, the echoed target
\* and the feasibility note.
RationaleCore(r) ==
    [total_universe |-> r.total_universe,
     after_quality_filters |-> r.after_quality_filters,
     sectors_available |-> r.sectors_available,
     stocks_selected |-> r.stocks_selected,
     sector_breakdown |-> r.sector_breakdown,
     achieved_cagr |-> r.achieved_cagr,
     fallback_used |-> r.fallback_used]

SummaryCore(summary) ==
    [horizon_years |-> summary.horizon_years,
     horizon_months |-> summary.horizon_months,
     achieved_cagr |-> summary.achieved_cagr,
     total_investment |-> summary.total_investment,
     final_value |-> summary.final_value,
     total_gain |-> summary.total_gain,
     money_multiplier |-> summary.money_multiplier,
     monthly_avg_gain |-> summary.monthly_avg_gain,
     total_return_percentage |-> summary.total_return_percentage,
     inflation_beat_margin |-> summary.inflation_beat_margin]

\* C13: a second call over the same stocks that differs only in expected_cagr
\* and min_stocks returns the same ordered selection and the same achieved
\* rate; a second run that differs only in expected_cagr hands the same stocks
\* to the solver and, for the same solver outcome, returns the same weights,
\* share counts and projection. Only the feasible flag, the echoed target and
\* the feasibility note may differ.
C13_FeasibilityIsAdvisory ==
    /\ run_pc = "selection_returned" =>
           \A e \in ExpectedCagrs, m \in RequestMinStocks :
               LET other == SelectorResult(universe, [sel_args EXCEPT !.expected_cagr = e,
                                                                      !.min_stocks = m])
               IN  /\ other.error = "none"
                   /\ other.selected = sel_result.selected
                   /\ other.achieved_cagr = sel_result.achieved_cagr
                   /\ RationaleCore(other.rationale) = RationaleCore(sel_result.rationale)
    /\ run_pc = "returned" =>
           \A e \in ExpectedCagrs :
               LET other_args == [run_args EXCEPT !.expected_cagr = e]
                   other == SelectorResult(universe,
                                           SelectorCallArgs(e, run_args.horizon_months))
                   stocks == SelectedStockObjects(universe, other.selected)
                   allocations == Allocations(stocks, AllocationWeights,
                                              other_args.monthly_investment)
                   rows == ShareRows(allocations)
                   bundle == ResultBundle(other_args, other, stocks, allocations,
                                          WithActualWeights(rows, TotalShareCost(rows)),
                                          FinancialProjections(
                                              other_args.monthly_investment,
                                              other_args.horizon_months,
                                              Hundredths(other.achieved_cagr)),
                                          results[1].analysis_date)
               IN  /\ other.error = "none"
                   /\ other.selected = sel_result.selected
                   /\ other.achieved_cagr = sel_result.achieved_cagr
                   /\ stocks = opt_stocks
                   /\ bundle.portfolio_allocations = results[1].portfolio_allocations
                   /\ bundle.whole_share_allocations = results[1].whole_share_allocations
                   /\ bundle.financial_projection = results[1].financial_projection
                   /\ bundle.sector_allocation = results[1].sector_allocation
                   /\ SummaryCore(bundle.investment_summary)
                          = SummaryCore(results[1].investment_summary)
                   /\ RationaleCore(bundle.selection_rationale)
                          = RationaleCore(results[1].selection_rationale)

C13_Witness ==
    /\ run_pc = "returned"
    /\ Len(sel_result.round2) >= 1
    /\ \E e \in ExpectedCagrs :
           SelectorResult(universe, SelectorCallArgs(e, run_args.horizon_months))
               .rationale.feasibility_note # sel_result.rationale.feasibility_note

\* C16 as claimed: a second execution over the same snapshot and with the same
\* parameters returns the same ordered selection and the same achieved rate,
\* hence hands the same stocks to the solver, and returns the same projection,
\* whatever the order in which the query returns the rows of the snapshot.
C16_Deterministic ==
    run_pc \in {"selection_returned", "returned"} =>
        \A again \in get_active_stocks(universe) :
            LET second == SelectorResult(again.stocks, sel_args)
                second_tickers == [k \in 1..Len(second.selected) |->
                                      again.order[second.selected[k].ticker]]
            IN  /\ second.error = "none"
                /\ second_tickers = SelectedTickers
                /\ second.achieved_cagr = sel_result.achieved_cagr
                /\ run_pc = "returned" =>
                       FinancialProjections(run_args.monthly_investment,
                                            run_args.horizon_months,
                                            Hundredths(second.achieved_cagr))
                           = results[1].financial_projection

\* C19 as claimed: when the solver fails or raises, the run continues with
\* equal weights and the rationale of the returned bundle records that the
\* equal-weight fallback was used.
C19_FallbackRecorded ==
    /\ (run_pc \in {"optimized", "projected", "reconciled", "returned"}
            /\ solver \in {"failure", "raised"})
           => \A i \in 1..Len(portfolio_allocations) :
                  portfolio_allocations[i].weight = Rat(1, Len(portfolio_allocations))
    /\ (run_pc = "returned" /\ solver \in {"failure", "raised"})
           => results[1].selection_rationale.fallback_used

\* C20 as claimed: every allocation handed to calculate_whole_share_allocation
\* has current_price > 0, and the reconciliation step does not raise.
C20_PositivePrices ==
    /\ run_pc = "projected" =>
           \A i \in 1..Len(portfolio_allocations) :
               portfolio_allocations[i].current_price > 0
    /\ ~(run_pc = "raised" /\ projection # <<>>)

-----------------------------------------------------------------------------
(* Objective and horizon properties *)

\* C18: the optimizer's objective is defined for every weight vector the
\* solver may evaluate: no evaluation yields NaN or an infinity, and where the
\* portfolio volatility sqrt(w' Sigma w) is zero the objective returns -(w' r).
C18_ObjectiveDefined ==
    objective_eval # <<>> =>
        LET ev == objective_eval[1]
        IN  /\ ev.value.kind = "number"
            /\ PortfolioVariance(ev.weights, ev.risks) = RInt(0) =>
                   /\ ev.value.num =
                          RMul(RInt(-1), PortfolioReturn(ev.weights, ev.returns))
                   /\ ev.value.den_squared = RInt(1)

\* The standalone script's objective alone has the zero-volatility branch.
C18_StandaloneObjectiveDefined ==
    (objective_eval # <<>> /\ objective_eval[1].fn = "standalone") =>
        C18_ObjectiveDefined

\* The supported bucket closest to a horizon, the lower one on a tie.
NearestSupportedBucket(h) ==
    CHOOSE b \in Buckets :
        \A c \in Buckets :
            \/ Abs(b - h) < Abs(c - h)
            \/ Abs(b - h) = Abs(c - h) /\ b <= c

\* C15: for every requested horizon in 12..60 that is not a supported bucket,
\* the forecast bucket used is the supported bucket closest to the horizon,
\* the lower one on a tie, on the plan request path and on the
\* stock-selection request path alike.
C15_NearestBucket ==
    (/\ horizon_request # <<>>
     /\ horizon_request[1].pc = "resolved"
     /\ horizon_request[1].path \in {"plan", "selection"}
     /\ horizon_request[1].requested \notin Buckets) =>
        horizon_request[1].column =
            NearestSupportedBucket(horizon_request[1].requested)

\* Through the plan request validator alone the nearest bucket is used.
C15_PlanPathNearestBucket ==
    (horizon_request # <<>> /\ horizon_request[1].path = "plan") =>
        C15_NearestBucket

-----------------------------------------------------------------------------
(* Further selector properties *)

\* C21: tickers being unique in the universe, the returned selection holds no
\* instrument twice: neither a Round-1 pick added again in Round 2 nor an
\* instrument added twice within a round.
C21_NoDuplicates ==
    sel_pc = "returned" =>
        \A i, j \in 1..Len(sel_result.selected) :
            i # j => sel_result.selected[i].ticker # sel_result.selected[j].ticker

\* A Round-1 pick below the threshold, so that only used_tickers keeps it out
\* of Round 2, and a Round-2 addition.
C21_Witness ==
    /\ sel_pc = "returned"
    /\ Len(sel_result.round2) >= 1
    /\ \E k \in 1..Len(sel_result.round1) :
           BelowThreshold(sel_result.round1[k], sel_args.peg_threshold)

\* The gate-passing rows of the universe, as the selector builds them.
SelectorFrame ==
    QualityFilter(BuildStockData(universe, 1,
                                 get_forecast_column(sel_args.horizon_months)))

\* C22: when several gate-passing instruments of one sector share the minimum
\* PEG, the Round-1 pick of that sector is the one among them with the lowest
\* overall_rank.
C22_RankBreaksTies ==
    sel_pc = "returned" =>
        \A k \in 1..Len(sel_result.round1) :
            \A i \in 1..Len(SelectorFrame) :
                (/\ SelectorFrame[i].sector = sel_result.round1[k].sector
                 /\ SelectorFrame[i].peg_ratio = sel_result.round1[k].peg_ratio)
                    => sel_result.round1[k].overall_rank
                           <= SelectorFrame[i].overall_rank

\* The positions of the universe whose instrument passes the quality gate.
GateSurvivors == {i \in 1..Len(universe) : PassesSelectorGate(universe[i])}

\* The three counts of the rationale that are taken after the gate.
RationaleSurvivorCounts ==
    SelectorReturned =>
        /\ sel_result.rationale.after_quality_filters = Cardinality(GateSurvivors)
        /\ sel_result.rationale.sectors_available =
               Cardinality({universe[i].sector : i \in GateSurvivors})
        /\ sel_result.rationale.stocks_selected = Len(sel_result.selected)

\* C23: in the rationale, total_universe is the number of instruments in the
\* universe before the quality gate, after_quality_filters the number that
\* pass the gate, sectors_available the number of distinct sectors among the
\* survivors and stocks_selected the length of the returned selection.
C23_RationaleCounts ==
    /\ SelectorReturned => sel_result.rationale.total_universe = Len(universe)
    /\ RationaleSurvivorCounts

-----------------------------------------------------------------------------
(* Further pipeline properties *)

\* The total weight of the allocations whose stock satisfies Test.
WeightWhere(Test(_)) ==
    RSum([k \in 1..Len(portfolio_allocations) |->
             IF Test(opt_stocks[k]) THEN portfolio_allocations[k].weight ELSE RInt(0)])

\* A label allocation of the bundle is absent when no selected stock carries
\* the label, and otherwise maps each label carried to the weight it carries.
LabelAllocationRight(allocation, Label(_)) ==
    LET carried == {Label(opt_stocks[k])[1] :
                       k \in {j \in 1..Len(opt_stocks) : Label(opt_stocks[j]) # None}}
    IN  IF carried = {} THEN allocation = None
        ELSE /\ allocation # None
             /\ DOMAIN allocation[1] = carried
             /\ \A value \in carried :
                    LET Carries(stock) == Label(stock) = Some(value)
                    IN  allocation[1][value] = WeightWhere(Carries)

\* C24: in the returned bundle sector_allocation maps each sector of a
\* selected instrument to the sum of the optimizer weights of that sector, and
\* its values sum to 1; style_allocation and risk_allocation sum the weights of
\* the instruments that carry the label and are absent when none carries one;
\* inflation_beat_margin is the achieved rate in percent minus 6.
C24_DiversificationMetrics ==
    run_pc = "returned" =>
        LET bundle == results[1]
            sectors == {opt_stocks[k].sector : k \in 1..Len(opt_stocks)}
            SectorShare(sector) ==
                IF sector \in DOMAIN bundle.sector_allocation
                THEN bundle.sector_allocation[sector] ELSE RInt(0)
        IN  /\ DOMAIN bundle.sector_allocation = sectors
            /\ \A sector \in sectors :
                   LET InSector(stock) == stock.sector = sector
                   IN  bundle.sector_allocation[sector] = WeightWhere(InSector)
            /\ RAdd(SectorShare("A"), SectorShare("B")) = RInt(1)
            /\ LabelAllocationRight(bundle.style_allocation, InvestmentStyle)
            /\ LabelAllocationRight(bundle.risk_allocation, RiskLevel)
            /\ bundle.investment_summary.inflation_beat_margin =
                   RSub(RMul(sel_result.achieved_cagr, RInt(100)), RInt(6))

\* A bundle for two instruments of one sector and one style, neither with a
\* risk level, on unequal weights.
C24_Witness ==
    /\ run_pc = "returned"
    /\ Len(portfolio_allocations) = 2
    /\ portfolio_allocations[1].weight # portfolio_allocations[2].weight
    /\ opt_stocks[1].sector = opt_stocks[2].sector
    /\ results[1].style_allocation # None
    /\ results[1].risk_allocation = None

-----------------------------------------------------------------------------
(* Further projector properties *)

\* C25: for horizon >= 1 and monthly amount > 0 calculate_financial_projections
\* returns (no division by zero raises) and what it returns is consistent:
\* cumulative_investment[m] = amount * m whatever the rate, monthly_gains[m] =
\* projected_values[m] - cumulative_investment[m], final_value and
\* total_investment are the last entries, total_gain their difference,
\* money_multiplier = final_value / total_investment, monthly_avg_gain =
\* total_gain / horizon, total_return_percentage = 100 * total_gain /
\* total_investment.
C25_ProjectionConsistent ==
    LET amount == proj_args.monthly_investment
        horizon == proj_args.horizon_months
    IN  /\ (proj_pc = "raised" /\ horizon >= 1) => ~RLess(RInt(0), amount)
        /\ (proj_pc = "engine" /\ horizon >= 1 /\ RLess(RInt(0), amount)) =>
               /\ DOMAIN projection.cumulative_investment = 1..horizon
               /\ DOMAIN projection.projected_values = 1..horizon
               /\ DOMAIN projection.monthly_gains = 1..horizon
               /\ \A m \in 1..horizon :
                      /\ projection.cumulative_investment[m] = RMul(amount, RInt(m))
                      /\ RAdd(projection.monthly_gains[m],
                              projection.cumulative_investment[m])
                             = RInt(projection.projected_values[m])
               /\ projection.final_value = projection.projected_values[horizon]
               /\ projection.total_investment = projection.cumulative_investment[horizon]
               /\ RAdd(projection.total_gain, projection.total_investment)
                      = RInt(projection.final_value)
               /\ projection.total_investment # RInt(0)
               /\ projection.money_multiplier =
                      RDiv(RInt(projection.final_value), projection.total_investment)
               /\ projection.monthly_avg_gain =
                      RDiv(projection.total_gain, RInt(horizon))
               /\ projection.total_return_percentage =
                      RDiv(RMul(RInt(100), projection.total_gain),
                           projection.total_investment)

\* A projection over several months at a positive rate and a fractional amount.
C25_Witness ==
    /\ proj_pc = "engine"
    /\ proj_args.horizon_months >= 3
    /\ proj_args.achieved_cagr > 0
    /\ proj_args.monthly_investment = Rat(100001, 2)
    /\ projection.total_gain # RInt(0)

-----------------------------------------------------------------------------
(* Concurrency properties *)

\* The outcome is one that a plan request with these arguments may obtain
\* when it runs alone over the rows and the query returns them as stocks.
SoloOutcome(outcome, rows, stocks, args) ==
    IF rows = <<>>
    THEN outcome = AnalysisRaised("No active stocks found in database")
    ELSE /\ \E returned \in get_active_stocks(rows) : returned.stocks = stocks
         /\ outcome \in AnalysisOutcomes(
                            stocks,
                            BuildStockData(stocks, 1,
                                           get_forecast_column(args.horizon_months)),
                            args)

\* C26: in any interleaving of concurrent plan requests over an unmodified
\* universe, each request obtains a result it may obtain when it runs alone.
C26_Isolation ==
    \A t \in TaskIds :
        tasks[t].outcome # None =>
            IF tasks[t].app = "engine"
            THEN SoloOutcome(tasks[t].outcome[1], universe, tasks[t].stocks,
                             tasks[t].args)
            ELSE tasks[t].outcome[1] \in StandaloneOutcomes(universe, tasks[t].args)

\* Both requests have returned a bundle, for different horizons, the second
\* one having collected rows while the first one was in its loop.
C26_Witness ==
    /\ tasks[1].app = "engine"
    /\ tasks[2].app = "engine"
    /\ tasks[1].pc = "returned"
    /\ tasks[2].pc = "returned"
    /\ tasks[1].args.horizon_months # tasks[2].args.horizon_months
    /\ Len(tasks[1].stock_data) = 2
    /\ Len(tasks[2].stock_data) = 2

-----------------------------------------------------------------------------
(* Frame properties *)

\* The engine's optimizer and reconciler leave what they receive as it was.
EngineInputsUnchanged ==
    [][/\ (alloc_pc = "start" /\ alloc_pc' = "optimized") => opt_stocks' = opt_stocks
       /\ (alloc_pc = "optimized" /\ alloc_pc' \in {"reconciled", "raised"}) =>
              portfolio_allocations' = portfolio_allocations]_vars

\* The selector leaves every instrument record of the universe as it was.
SelectorInputUnchanged ==
    [][(sel_pc = "start" /\ sel_pc' # "start") => universe' = universe]_vars

\* C27: no operation modifies its inputs: the selector leaves the universe
\* unchanged, optimize_portfolio the selected instruments it receives, and
\* calculate_whole_share_allocation the allocation records it receives.
C27_InputsUnchanged ==
    [][/\ (sel_pc = "start" /\ sel_pc' # "start") => universe' = universe
       /\ (alloc_pc = "start" /\ alloc_pc' # "start") => opt_stocks' = opt_stocks
       /\ (alloc_pc = "optimized" /\ alloc_pc' \in {"reconciled", "raised"}) =>
              portfolio_allocations' = portfolio_allocations]_vars

-----------------------------------------------------------------------------
(* Endpoint properties *)

\* C28: a request that the handler rejects with a specific status reaches the
\* caller with that status: 400 from /projection for an amount below the
\* minimum or a horizon outside 12..60, 404 from /optimize-portfolio and
\* /whole-shares for a ticker that does not exist.
C28_RejectionStatus ==
    (http # <<>> /\ http[1].response # None) =>
        LET request == http[1].request
            response == http[1].response[1]
        IN  /\ (/\ request.endpoint = "/projection"
                /\ \/ request.monthly_investment < MIN_MONTHLY_INVESTMENT
                   \/ request.horizon_months < 12
                   \/ request.horizon_months > 60)
                   => response.status_code = 400
            /\ (/\ request.endpoint \in {"/optimize-portfolio", "/whole-shares"}
                /\ \E k \in 1..Len(request.tickers) : request.tickers[k] = "NOSUCH")
                   => response.status_code = 404

\* C29: within one plan request of the standalone app, for every horizon in
\* 12..60, the forecast bucket behind the achieved growth rate is the bucket
\* from which the optimizer and the response read expected returns.
C29_OneBucketPerRequest ==
    (/\ horizon_request # <<>>
     /\ horizon_request[1].pc = "resolved"
     /\ horizon_request[1].path = "standalone") =>
        horizon_request[1].column = horizon_request[1].return_column

\* On the supported buckets themselves the two mappings agree.
StandaloneColumnsAgreeOnBuckets ==
    (/\ horizon_request # <<>>
     /\ horizon_request[1].path = "standalone"
     /\ horizon_request[1].requested \in Buckets) =>
        C29_OneBucketPerRequest

-----------------------------------------------------------------------------
(* Further reconciler properties *)

\* C30: for every allocation with positive price and non-negative monthly
\* allocation, target_shares - 1/2 <= whole_shares <= target_shares + 1; hence,
\* when the input weights sum to 1, total_monthly_investment lies between the
\* monthly amount minus half the sum of the prices and the monthly amount plus
\* the sum of the prices, and is never below the sum of the prices.
C30_WholeShareBounds ==
    alloc_pc = "reconciled" =>
        LET n == Len(whole_share_allocations)
            prices == IntSum([i \in 1..n |-> portfolio_allocations[i].current_price])
            total == whole_share_allocations[1].total_monthly_investment
        IN  /\ \A i \in 1..n :
                   (/\ portfolio_allocations[i].current_price > 0
                    /\ RLeq(RInt(0), portfolio_allocations[i].monthly_allocation))
                       => LET row == whole_share_allocations[i]
                          IN  /\ RLeq(RSub(row.target_shares, Rat(1, 2)),
                                      RInt(row.whole_shares))
                              /\ RLeq(RInt(row.whole_shares),
                                      RAdd(row.target_shares, RInt(1)))
            /\ RSum([i \in 1..n |-> portfolio_allocations[i].weight]) = RInt(1)
                   => /\ RLeq(RSub(opt_amount, Rat(prices, 2)), RInt(total))
                      /\ RLeq(RInt(total), RAdd(opt_amount, RInt(prices)))
                      /\ total >= prices

\* Weights summing to 1 over several instruments, one rounded up to the forced
\* single share and one rounded down by more than a third of a share.
C30_Witness ==
    /\ alloc_pc = "reconciled"
    /\ Len(whole_share_allocations) >= 2
    /\ RSum([i \in 1..Len(portfolio_allocations) |->
                portfolio_allocations[i].weight]) = RInt(1)
    /\ \E i, j \in 1..Len(whole_share_allocations) :
         /\ RLess(whole_share_allocations[i].target_shares, Rat(1, 2))
         /\ whole_share_allocations[i].whole_shares = 1
         /\ RLess(RInt(1), whole_share_allocations[j].target_shares)
         /\ RLess(RInt(whole_share_allocations[j].whole_shares),
                  RSub(whole_share_allocations[j].target_shares, Rat(1, 3)))

====
